---- MODULE Spec2Model ----
(***************************************************************************)
(* Adaptive personalization engine of the caption generator:              *)
(*   - LanguageAdvisor  (services/geminiService.js, recommendLanguage)    *)
(*   - VoiceModel       (routes: create/update profile, voice feedback,   *)
(*                       triggerVoiceRefinement; db/database.js)          *)
(* Numbers of the voice vector are kept in hundredths (0.5 is 50), the    *)
(* resolution of the DECIMAL(3,2) columns that store them.                *)
(***************************************************************************)
EXTENDS Integers, Sequences, FiniteSets, TLC

VARIABLES
    savedPosts,        \* saved_posts rows of the user, newest first
    lrPc,              \* position of the recommendLanguage call
    lrIn,              \* its arguments
    lrOut,             \* what it returned, or that it rejected
    lrReads,           \* store reads the call has issued
    lrDist,            \* the distribution the call awaited
    voiceProfiles,     \* voice_profiles rows of the user (user_id is UNIQUE)
    contentAnalysis,   \* content_analysis rows of the user, newest first
    voiceFeedback,     \* voice_feedback rows of the user, newest first
    trainingSessions,  \* voice_training_sessions rows, newest first
    captionHistory,    \* caption_history rows of the user, newest first
    textModel,         \* whether the Gemini text client was initialised
    response,          \* the last HTTP response and the request it answers
    fbPc,              \* position of the POST /voice-feedback handler
    fbRefine,          \* how triggerVoiceRefinement ended
    fbError,           \* the error thrown inside triggerVoiceRefinement
    fbLog,             \* store and oracle calls the refinement completed
    fbAnalysisHistory, \* its local analysisHistory
    fbFeedbackHistory, \* its local feedbackHistory
    fbCurrentProfile,  \* its local currentProfile (rows[0], <<>> if none)
    fbOracleText,      \* the response text the oracle gave
    fbRefined,         \* its local refinedProfile
    fbBefore,          \* profile and session rows when the refinement began
    userPreferences,   \* the user_preferences row of the user (<<>> if none)
    pfIn,              \* the preference-memory call in progress and its arguments
    pfOut              \* what that call returned, or that it rejected

langVars == <<savedPosts, lrPc, lrIn, lrOut, lrReads, lrDist>>

storeVars ==
    <<voiceProfiles, contentAnalysis, voiceFeedback, trainingSessions, captionHistory,
      textModel>>

fbVars ==
    <<fbPc, fbRefine, fbError, fbLog, fbAnalysisHistory, fbFeedbackHistory,
      fbCurrentProfile, fbOracleText, fbRefined, fbBefore>>

voiceVars == <<storeVars, response, fbVars>>

prefVars == <<userPreferences, pfIn, pfOut>>

vars == <<langVars, voiceVars, prefVars>>

\* no preference-memory call is in progress
NoCall == [op |-> "none"]

\* no row in user_preferences and no call in progress
PrefsIdle ==
    /\ userPreferences = <<>>
    /\ pfIn = NoCall
    /\ pfOut = NoCall

(***************************************************************************)
(* Bounds                                                                  *)
(***************************************************************************)
MaxPosts == 6

MaxAnalysis == 6

MaxFeedback == 1

MaxSessions == 2

MaxExisting == 3

MaxIncoming == 2

MaxWords == 3

\* generation requests whose rows the stores are followed for
MaxCaptions == 2

\* updatePreferences calls each of the concurrent callers makes
MaxUpdates == 2

(***************************************************************************)
(* LanguageAdvisor                                                         *)
(***************************************************************************)
Null == "null"

DEFAULT_LANGUAGE == "en"

\* mapFrancToIso: 'und' and unknown codes give null
mapFrancToIso(code) ==
    LET FRANC_TO_ISO ==
            [c \in {"eng","hin","tel","tam","kan","mal","ben","mar","pan","guj","urd","spa","deu","fra"} |->
                CASE c = "eng" -> "en" [] c = "hin" -> "hi" [] c = "tel" -> "te"
                  [] c = "tam" -> "ta" [] c = "kan" -> "kn" [] c = "mal" -> "ml"
                  [] c = "ben" -> "bn" [] c = "mar" -> "mr" [] c = "pan" -> "pa"
                  [] c = "guj" -> "gu" [] c = "urd" -> "ur" [] c = "spa" -> "es"
                  [] c = "deu" -> "de" [] c = "fra" -> "fr"]
    IN
    IF code = Null \/ code = "und" THEN Null
    ELSE IF code \in DOMAIN FRANC_TO_ISO THEN FRANC_TO_ISO[code] ELSE Null

(* A text is a sequence of tokens (a #tag or @mention, a URL, or a word of  *)
(* some length) together with the verdict the n-gram identifier gives on   *)
(* the cleaned text.  The empty text stands for '', null and undefined.    *)
Tag(n) == [kind |-> "tag", len |-> n]
Url(n) == [kind |-> "url", len |-> n]
Word(n) == [kind |-> "word", len |-> n]

Text(tokens, verdict) == [tokens |-> tokens, verdict |-> verdict]

EmptyText == Text(<<>>, "und")

\* sanitizeText: tags, mentions and URLs become blanks, runs of blanks
\* collapse to one, the ends are trimmed: the words remain, one blank apart
sanitizeText(text) == SelectSeq(text.tokens, LAMBDA t : t.kind = "word")

RECURSIVE SumLen(_)
SumLen(ws) == IF ws = <<>> THEN 0 ELSE Head(ws).len + SumLen(Tail(ws))

\* cleaned.length
CleanedLength(ws) == IF ws = <<>> THEN 0 ELSE SumLen(ws) + (Len(ws) - 1)

\* the isoCode of detectLanguageFromCaption's result, Null when it returns null
detectLanguageFromCaption(text) ==
    IF text.tokens = <<>> THEN Null
    ELSE LET cleaned == sanitizeText(text) IN
         IF CleanedLength(cleaned) < 3 THEN Null
         ELSE mapFrancToIso(text.verdict)

\* a saved_posts row: the caption and the stored language tag (Null if none)
Post(caption, language) == [caption |-> caption, language |-> language]

NoDistribution == [order |-> <<>>, count |-> <<>>, total |-> 0]

\* the tally Map after the loop over posts[1..n]: keys in insertion order
RECURSIVE Tally(_, _)
Tally(posts, n) ==
    LET \* post.caption || '' then detected?.isoCode || post.language || null
        EffectiveLanguage(post) ==
            LET detected == detectLanguageFromCaption(post.caption) IN
            IF detected # Null THEN detected ELSE post.language
    IN
    IF n = 0 THEN NoDistribution
    ELSE LET t == Tally(posts, n - 1)
             lang == EffectiveLanguage(posts[n])
             pos == {i \in 1..Len(t.order) : t.order[i] = lang}
         IN  IF lang = Null THEN t
             ELSE IF pos = {}
                  THEN [order |-> Append(t.order, lang),
                        count |-> Append(t.count, 1),
                        total |-> t.total + 1]
                  ELSE LET i == CHOOSE j \in pos : TRUE IN
                       [order |-> t.order,
                        count |-> [t.count EXCEPT ![i] = @ + 1],
                        total |-> t.total + 1]

\* getSavedPosts(userId, limit): the newest `limit` rows
getSavedPosts(rows, limit) == SubSeq(rows, 1, IF Len(rows) < limit THEN Len(rows) ELSE limit)

HistoryLimit == 50

\* detectLanguageDistributionForUser after its store read returned `posts`;
\* distribution[lang] = count / total is kept as the pair (count, total)
DistributionOf(posts) ==
    IF Len(posts) = 0 THEN NoDistribution
    ELSE LET t == Tally(posts, Len(posts)) IN
         IF t.total = 0 THEN NoDistribution ELSE t

\* an insertion that puts an entry before the entries of equal share
RECURSIVE InsertRanked_Later(_, _)
InsertRanked_Later(sorted, e) ==
    IF sorted = <<>> THEN <<e>>
    ELSE IF Head(sorted)[2] > e[2]
         THEN <<Head(sorted)>> \o InsertRanked_Later(Tail(sorted), e)
         ELSE <<e>> \o sorted

\* Object.entries(distribution).sort((a, b) => b[1] - a[1]): a stable sort,
\* entries <<lang, count>> by descending share
RECURSIVE InsertRanked(_, _)
InsertRanked(sorted, e) ==
    IF sorted = <<>> THEN <<e>>
    ELSE IF Head(sorted)[2] >= e[2] THEN <<Head(sorted)>> \o InsertRanked(Tail(sorted), e)
         ELSE <<e>> \o sorted

RECURSIVE RankedUpTo(_, _)
RankedUpTo(dist, n) ==
    IF n = 0 THEN <<>>
    ELSE InsertRanked(RankedUpTo(dist, n - 1), <<dist.order[n], dist.count[n]>>)

Ranked(dist) == RankedUpTo(dist, Len(dist.order))

\* share >= 0.7 and share >= 0.5, share >= 0.2 on count / total
AtLeastTenths(count, total, tenths) == 10 * count >= tenths * total

Result(mode, primary, secondary, reason, sources) ==
    [mode |-> mode, primary |-> primary, secondary |-> secondary,
     reason |-> reason, sources |-> sources]

\* the history rule with the majority threshold at 0.8
HistoryRule_Majority08(distribution, sources) ==
    LET ranked == Ranked(distribution)
        topLang == ranked[1][1]
        topCount == ranked[1][2]
        secondLang == IF Len(ranked) >= 2 THEN ranked[2][1] ELSE Null
        secondCount == IF Len(ranked) >= 2 THEN ranked[2][2] ELSE 0
        total == distribution.total
    IN  IF AtLeastTenths(topCount, total, 8)
        THEN Result("single", topLang, Null, "audience-majority", sources)
        ELSE IF AtLeastTenths(topCount, total, 5) /\ AtLeastTenths(secondCount, total, 2)
             THEN Result("bilingual", topLang, secondLang, "audience-mixed", sources)
             ELSE Result("single", topLang, Null, "audience-default", sources)

\* the history rule with the second share compared strictly (> 0.2)
HistoryRule_SecondStrict(distribution, sources) ==
    LET ranked == Ranked(distribution)
        topLang == ranked[1][1]
        topCount == ranked[1][2]
        secondLang == IF Len(ranked) >= 2 THEN ranked[2][1] ELSE Null
        secondCount == IF Len(ranked) >= 2 THEN ranked[2][2] ELSE 0
        total == distribution.total
    IN  IF AtLeastTenths(topCount, total, 7)
        THEN Result("single", topLang, Null, "audience-majority", sources)
        ELSE IF AtLeastTenths(topCount, total, 5) /\ 10 * secondCount > 2 * total
             THEN Result("bilingual", topLang, secondLang, "audience-mixed", sources)
             ELSE Result("single", topLang, Null, "audience-default", sources)

\* the history rule answering bilingual from a top share of 0.5 on, whether
\* or not there is a second language
HistoryRule_SecondIgnored(distribution, sources) ==
    LET ranked == Ranked(distribution)
        topLang == ranked[1][1]
        topCount == ranked[1][2]
        secondLang == IF Len(ranked) >= 2 THEN ranked[2][1] ELSE Null
    IN  IF AtLeastTenths(topCount, distribution.total, 5)
        THEN Result("bilingual", topLang, secondLang, "audience-mixed", sources)
        ELSE Result("single", topLang, Null, "audience-default", sources)

\* recommendLanguage from line 1567 on: the history rule
HistoryRule(distribution, sources) ==
    LET ranked == Ranked(distribution)
        topLang == ranked[1][1]
        topCount == ranked[1][2]
        secondLang == IF Len(ranked) >= 2 THEN ranked[2][1] ELSE Null
        secondCount == IF Len(ranked) >= 2 THEN ranked[2][2] ELSE 0
        total == distribution.total
    IN  IF AtLeastTenths(topCount, total, 7)
        THEN Result("single", topLang, Null, "audience-majority", sources)
        ELSE IF AtLeastTenths(topCount, total, 5) /\ AtLeastTenths(secondCount, total, 2)
             THEN Result("bilingual", topLang, secondLang, "audience-mixed", sources)
             ELSE Result("single", topLang, Null, "audience-default", sources)

\* the chain with the image hint tried before the caption detection
Decide_HintFirst(in, distribution) ==
    LET captionDetection == IF in.captionText.tokens # <<>>
                            THEN detectLanguageFromCaption(in.captionText) ELSE Null
        s1 == IF captionDetection # Null THEN <<"caption">> ELSE <<>>
        sources == IF distribution # NoDistribution THEN Append(s1, "history") ELSE s1
    IN  IF in.imageLanguageHint # Null
        THEN Result("single", in.imageLanguageHint, Null, "image-detected",
                    Append(sources, "image"))
        ELSE IF captionDetection # Null
             THEN Result("single", captionDetection, Null, "caption-detected", sources)
             ELSE IF distribution # NoDistribution
                  THEN HistoryRule(distribution, sources)
                  ELSE Result("single", in.fallbackLanguage, Null, "fallback", sources)

\* recommendLanguage after the awaited distribution is known
Decide(in, distribution) ==
    LET captionDetection == IF in.captionText.tokens # <<>>
                            THEN detectLanguageFromCaption(in.captionText) ELSE Null
        s1 == IF captionDetection # Null THEN <<"caption">> ELSE <<>>
        sources == IF distribution # NoDistribution THEN Append(s1, "history") ELSE s1
    IN  IF captionDetection # Null
        THEN Result("single", captionDetection, Null, "caption-detected", sources)
        ELSE IF in.imageLanguageHint # Null
             THEN Result("single", in.imageLanguageHint, Null, "image-detected",
                         Append(sources, "image"))
             ELSE IF distribution # NoDistribution
                  THEN HistoryRule(distribution, sources)
                  ELSE Result("single", in.fallbackLanguage, Null, "fallback", sources)

NoResult == Result(Null, Null, Null, Null, <<>>)

NoInput == [userId |-> 0, captionText |-> EmptyText, preferredLanguage |-> Null,
            imageLanguageHint |-> Null, fallbackLanguage |-> DEFAULT_LANGUAGE]


(***************************************************************************)
(* VoiceModel: values and pure functions                                   *)
(***************************************************************************)
\* the eight dimensions as the request bodies and upsertVoiceProfile name them
DimKeys ==
    <<"formality", "humor", "enthusiasm", "professionalism", "creativity",
      "emotionalTone", "confidence", "warmth">>

\* the eight columns of voice_profiles, in the order of DimKeys
Columns ==
    <<"formality", "humor", "enthusiasm", "professionalism", "creativity",
      "emotional_tone", "confidence", "warmth">>

DimKeySet == {DimKeys[i] : i \in 1..Len(DimKeys)}

ColumnSet == {Columns[i] : i \in 1..Len(Columns)}

\* the property of voiceData that upsertVoiceProfile binds to a column
KeyOfColumn(c) == DimKeys[CHOOSE i \in 1..Len(Columns) : Columns[i] = c]

\* obj[k] of a JS object whose numeric properties are `num`: {} is undefined
Get(num, k) == IF k \in DOMAIN num THEN {num[k]} ELSE {}

\* x || d on a number: undefined and 0 are falsy
OrElse(x, d) == IF x = {} \/ x = {0} THEN d ELSE CHOOSE v \in x : TRUE

\* x = d as a destructuring default: only undefined takes the default
DefaultTo(x, d) == IF x = {} THEN d ELSE CHOOSE v \in x : TRUE

Abs(x) == IF x < 0 THEN -x ELSE x

Max(a, b) == IF a >= b THEN a ELSE b

Min(a, b) == IF a <= b THEN a ELSE b

\* a JS object carrying numeric properties and a profile name ('' if absent)
VoiceData(num, profileName) == [num |-> num, profileName |-> profileName]

\* an upsert that moves the stored row half way to the values given
upsertVoiceProfile_Blend(rows, voiceData) ==
    [profile_name |-> IF voiceData.profileName # "" THEN voiceData.profileName
                      ELSE "Default Profile",
     dims |-> [c \in ColumnSet |->
                 IF rows = <<>> THEN OrElse(Get(voiceData.num, KeyOfColumn(c)), 50)
                 ELSE (rows[1].dims[c] + OrElse(Get(voiceData.num, KeyOfColumn(c)), 50)) \div 2]]

\* Database.upsertVoiceProfile: the row written by INSERT ... ON CONFLICT
\* (user_id) DO UPDATE SET every column = EXCLUDED.column; `rows` is the
\* user's stored row, which the statement does not consult
upsertVoiceProfile(rows, voiceData) ==
    [profile_name |-> IF voiceData.profileName # "" THEN voiceData.profileName
                      ELSE "Default Profile",
     dims |-> [c \in ColumnSet |-> OrElse(Get(voiceData.num, KeyOfColumn(c)), 50)]]

\* the statement is rejected when a value does not fit its column
UpsertRejected(row) ==
    LET \* a DECIMAL(3,2) column holds |v| < 10; a larger value is rejected
        FitsDecimal32(v) == Abs(v) < 1000
    IN
                       \E c \in ColumnSet : ~FitsDecimal32(row.dims[c])

\* An oracle response is a sequence of lines "KEY: value"; the value of a
\* line is {n} when parseFloat reads the number n and {} otherwise
Line(key, value) == [key |-> key, value |-> value]

\* key.toLowerCase()
ToLowerCase(key) ==
    CASE key = "FORMALITY" -> "formality"
      [] key = "HUMOR" -> "humor"
      [] key = "ENTHUSIASM" -> "enthusiasm"
      [] key = "PROFESSIONALISM" -> "professionalism"
      [] key = "CREATIVITY" -> "creativity"
      [] key = "EMOTIONAL_TONE" -> "emotional_tone"
      [] key = "CONFIDENCE" -> "confidence"
      [] key = "WARMTH" -> "warmth"
      [] key = "CONFIDENCE_SCORE" -> "confidence_score"
      [] key = "Formal" -> "formal"
      [] key = "Humorous" -> "humorous"
      [] key = "Enthusiastic" -> "enthusiastic"
      [] key = "Professional" -> "professional"
      [] key = "Creative" -> "creative"
      [] key = "Emotional" -> "emotional"
      [] key = "Confident" -> "confident"
      [] key = "Warm" -> "warm"
      [] key = "Banana" -> "banana"
      [] key = "SUNSET" -> "sunset"
      [] key = "<C9>clairs" -> "<e9>clairs"
      [] OTHER -> key

\* obj[k] = v
Put(num, k, v) == [x \in DOMAIN num \cup {k} |-> IF x = k THEN v ELSE num[x]]

EmptyObject == [x \in {} |-> 0]

\* the lines.forEach of parseVoiceAnalysis over lines[1..n]
RECURSIVE AnalysisLines(_, _)
AnalysisLines(lines, n) ==
    IF n = 0 THEN EmptyObject
    ELSE LET acc == AnalysisLines(lines, n - 1)
             line == lines[n]
         IN  IF line.key # "" /\ line.value # {}
             THEN Put(acc, ToLowerCase(line.key), CHOOSE v \in line.value : TRUE)
             ELSE acc

requiredFields ==
    <<"formality", "humor", "enthusiasm", "professionalism", "creativity",
      "emotional_tone", "confidence", "warmth", "confidence_score">>

\* parseVoiceAnalysis: the numbers read, 0.5 for each required field missing
parseVoiceAnalysis(lines) ==
    LET analysis == AnalysisLines(lines, Len(lines))
        required == {requiredFields[i] : i \in 1..Len(requiredFields)}
    IN  [k \in DOMAIN analysis \cup required |->
            IF k \in DOMAIN analysis THEN analysis[k] ELSE 50]

\* the lines.forEach of parseVoiceRefinement over lines[1..n]: numbers are
\* clamped to [0,1]; a REASONING line sets no property
RECURSIVE RefinementLines(_, _)
RefinementLines(lines, n) ==
    IF n = 0 THEN EmptyObject
    ELSE LET acc == RefinementLines(lines, n - 1)
             line == lines[n]
         IN  IF line.key = "REASONING" THEN acc
             ELSE IF line.key # "" /\ line.value # {}
                  THEN Put(acc, ToLowerCase(line.key),
                           Max(0, Min(100, CHOOSE v \in line.value : TRUE)))
                  ELSE acc

\* parseVoiceRefinement: only the properties the response named, no defaults
parseVoiceRefinement(lines) == VoiceData(RefinementLines(lines, Len(lines)), "")

\* Database.storeContentAnalysis: analysisData is {contentType, contentText,
\* ...voiceAnalysis}; a column bound to an undefined property is NULL ({})
storeContentAnalysis(contentType, contentText, voiceAnalysis) ==
    LET \* a content_analysis row as SELECT * returns it
        AnalysisRow(type, text, analyzed, analysisConfidence) ==
            [content_type |-> type, content_text |-> text,
             analyzed |-> analyzed, analysis_confidence |-> analysisConfidence]
    IN
    AnalysisRow(contentType, contentText,
                [c \in ColumnSet |-> Get(voiceAnalysis, KeyOfColumn(c))],
                OrElse(Get(voiceAnalysis, "confidence"), 0))

\* buildVoiceRefinementPrompt completes unless analysis.contentText is
\* undefined for some sample, where .substring throws a TypeError
PromptBuilds(samples) ==
    LET \* the properties of a row object: its column names
        RowProperties ==
            {"id", "user_id", "content_type", "content_id", "content_text", "analyzed_at",
             "analysis_confidence"} \cup {c : c \in {"analyzed_formality", "analyzed_humor",
             "analyzed_enthusiasm", "analyzed_professionalism", "analyzed_creativity",
             "analyzed_emotional_tone", "analyzed_confidence", "analyzed_warmth"}}
    IN
    samples = <<>> \/ "contentText" \in RowProperties

\* calculateRefinementAccuracy, then `accuracyScore || 0.0` of
\* recordTrainingSession: a dimension missing from newProfile makes it NaN
calculateRefinementAccuracy(oldRow, newProfile) ==
    IF {"formality", "humor", "enthusiasm"} \subseteq DOMAIN newProfile.num
    THEN Max(70, 100 - ( Abs(newProfile.num["formality"] - oldRow.dims["formality"])
                       + Abs(newProfile.num["humor"] - oldRow.dims["humor"])
                       + Abs(newProfile.num["enthusiasm"] - oldRow.dims["enthusiasm"])))
    ELSE 0

\* getContentAnalysisHistory / getVoiceFeedbackHistory: newest `limit` rows
Newest(rows, limit) == SubSeq(rows, 1, Min(Len(rows), limit))

AnalysisLimit == 20

FeedbackLimit == 10

MinSamples == 5

\* the guard of triggerVoiceRefinement, inverted
NotEnoughData_Inverted(analysisHistory) == Len(analysisHistory) > MinSamples

\* the guard of triggerVoiceRefinement: analysisHistory.length < 5
NotEnoughData(analysisHistory) == Len(analysisHistory) < MinSamples

(***************************************************************************)
(* VoiceModel: inputs                                                      *)
(***************************************************************************)
\* request bodies of POST /create-voice-profile and PUT /voice-profiles/:id
ProfileBodies ==
    LET AllDims(v) == [k \in DimKeySet |-> v]
    IN
    LET \* numbers a request body can carry, in hundredths
        ValuesIn == {-20, 0, 150}
    IN
    { VoiceData(num, "") :
        num \in [{} -> ValuesIn] \cup [{"formality"} -> ValuesIn]
                \cup {[k \in {"humor", "emotionalTone"} |-> v] : v \in ValuesIn}
                \cup {AllDims(v) : v \in ValuesIn} }
    \cup { VoiceData(AllDims(1000), ""), VoiceData([k \in {"warmth"} |-> 30], "Brand") }

UpperKeys ==
    <<"FORMALITY", "HUMOR", "ENTHUSIASM", "PROFESSIONALISM", "CREATIVITY",
      "EMOTIONAL_TONE", "CONFIDENCE", "WARMTH">>

\* a response that follows the requested format with one score throughout
FullResponse(v) == [i \in 1..Len(UpperKeys) |-> Line(UpperKeys[i], {v})]

\* what the oracle can answer to the analysis prompt
AnalysisResponses ==
    { FullResponse(30) \o <<Line("CONFIDENCE_SCORE", {90})>>,
      <<Line("FORMALITY", {120}), Line("HUMOR", {}), Line("Note", {})>> }

\* what the oracle can answer to the refinement prompt
RefineResponses ==
    { FullResponse(v) \o <<Line("REASONING", {})>> : v \in {-20, 0, 30, 100, 150} }
    \cup { <<Line(UpperKeys[i], {v})>> : i \in 1..Len(UpperKeys), v \in {0, 40, 150} }
    \cup { <<Line(UpperKeys[i], {})>> : i \in 1..Len(UpperKeys) }
    \cup { <<Line("FORMALITY", {v}), Line("EMOTIONAL_TONE", {w}), Line("FORMALITY", {60})>> :
             v \in {0, 90}, w \in {0, 90} }

\* request bodies of POST /voice-feedback
FeedbackBodies ==
    { [contentType |-> "caption", feedbackType |-> "positive"],
      [contentType |-> "caption", feedbackType |-> ""] }

\* a response, with the request body it answers when the request succeeded
Answer(route, status, body) == [route |-> route, status |-> status, body |-> body]

Response(route, status) == Answer(route, status, VoiceData(EmptyObject, ""))

NoResponse == Response("none", 0)

NoBefore == [profiles |-> <<>>, sessions |-> <<>>]

(***************************************************************************)
(* VoiceModel: state and actions                                           *)
(***************************************************************************)
FeedbackIdle ==
    /\ fbPc = "idle"
    /\ fbRefine = "none"
    /\ fbError = "none"
    /\ fbLog = <<>>
    /\ fbAnalysisHistory = <<>>
    /\ fbFeedbackHistory = <<>>
    /\ fbCurrentProfile = <<>>
    /\ fbOracleText = <<>>
    /\ fbRefined = VoiceData(EmptyObject, "")
    /\ fbBefore = NoBefore

VoiceIdle ==
    /\ voiceProfiles = <<>>
    /\ contentAnalysis = <<>>
    /\ voiceFeedback = <<>>
    /\ trainingSessions = <<>>
    /\ captionHistory = <<>>
    /\ response = NoResponse
    /\ FeedbackIdle

\* POST /create-voice-profile: absent dimensions default to 0.5 in the route,
\* then upsertVoiceProfile; a rejected statement answers 500
CreateVoiceProfile ==
    /\ fbPc = "idle"
    /\ \E body \in ProfileBodies, storeUp \in BOOLEAN :
        LET data == VoiceData([k \in DimKeySet |-> DefaultTo(Get(body.num, k), 50)],
                              IF body.profileName = "" THEN "Default Profile"
                              ELSE body.profileName)
            row == upsertVoiceProfile(voiceProfiles, data)
        IN  IF storeUp /\ ~UpsertRejected(row)
            THEN /\ voiceProfiles' = <<row>>
                 /\ response' = Answer("create-voice-profile", 200, body)
            ELSE /\ response' = Response("create-voice-profile", 500)
                 /\ UNCHANGED voiceProfiles
    /\ UNCHANGED <<langVars, prefVars, contentAnalysis, voiceFeedback, trainingSessions, captionHistory, textModel, fbVars>>

\* PUT /voice-profiles/:id: upsertVoiceProfile(userId, req.body)
UpdateVoiceProfile ==
    /\ fbPc = "idle"
    /\ \E body \in ProfileBodies, storeUp \in BOOLEAN :
        LET row == upsertVoiceProfile(voiceProfiles, body) IN
        IF storeUp /\ ~UpsertRejected(row)
        THEN /\ voiceProfiles' = <<row>>
             /\ response' = Answer("voice-profiles", 200, body)
        ELSE /\ response' = Response("voice-profiles", 500)
             /\ UNCHANGED voiceProfiles
    /\ UNCHANGED <<langVars, prefVars, contentAnalysis, voiceFeedback, trainingSessions, captionHistory, textModel, fbVars>>

\* POST /analyze-voice: analyzeContentVoice, then storeContentAnalysis
AnalyzeVoice ==
    /\ fbPc = "idle"
    /\ Len(contentAnalysis) < MaxAnalysis
    /\ \E text \in AnalysisResponses, oracleUp \in BOOLEAN, storeUp \in BOOLEAN :
        IF textModel /\ oracleUp /\ storeUp
        THEN /\ contentAnalysis' =
                    <<storeContentAnalysis("caption", "text", parseVoiceAnalysis(text))>>
                    \o contentAnalysis
             /\ response' = Response("analyze-voice", 200)
        ELSE /\ response' = Response("analyze-voice", 500)
             /\ UNCHANGED contentAnalysis
    /\ UNCHANGED <<langVars, prefVars, voiceProfiles, voiceFeedback, trainingSessions, captionHistory, textModel, fbVars>>

\* POST /voice-feedback without contentType or feedbackType: 400
FeedbackInvalid ==
    /\ fbPc = "idle"
    /\ \E body \in FeedbackBodies : body.contentType = "" \/ body.feedbackType = ""
    /\ response' = Response("voice-feedback", 400)
    /\ UNCHANGED <<langVars, prefVars, storeVars, fbVars>>

\* POST /voice-feedback: storeVoiceFeedback, then triggerVoiceRefinement starts
FeedbackStore ==
    LET FeedbackRow(body) == [content_type |-> body.contentType, feedback_type |-> body.feedbackType]
    IN
    /\ fbPc = "idle"
    /\ Len(voiceFeedback) < MaxFeedback
    /\ \E body \in FeedbackBodies, storeUp \in BOOLEAN :
        /\ body.contentType # "" /\ body.feedbackType # ""
        /\ IF storeUp
           THEN /\ voiceFeedback' = <<FeedbackRow(body)>> \o voiceFeedback
                /\ fbPc' = "readAnalysis"
                /\ fbRefine' = "running"
                /\ fbBefore' = [profiles |-> voiceProfiles, sessions |-> trainingSessions]
                /\ response' = NoResponse
           ELSE /\ fbPc' = "responded"
                /\ response' = Response("voice-feedback", 500)
                /\ UNCHANGED <<voiceFeedback, fbRefine, fbBefore>>
    /\ UNCHANGED <<langVars, prefVars, voiceProfiles, contentAnalysis, trainingSessions, captionHistory, textModel,
                   fbError, fbLog, fbAnalysisHistory, fbFeedbackHistory, fbCurrentProfile,
                   fbOracleText, fbRefined>>

\* the catch of triggerVoiceRefinement, rethrowing
triggerVoiceRefinementCatch_Rethrow(error) == "rejected"

\* the catch of triggerVoiceRefinement: the error is logged, the call returns
triggerVoiceRefinementCatch(error) == "returned"

\* the handler after triggerVoiceRefinement settled: res.json, or its catch
StatusAfter(refine) == IF refine = "returned" THEN 200 ELSE 500

\* triggerVoiceRefinement returns (early or at its end)
RefineReturns ==
    /\ fbRefine' = "returned"
    /\ fbPc' = "responded"
    /\ response' = Response("voice-feedback", StatusAfter("returned"))
    /\ UNCHANGED fbError

\* an error is thrown inside the try block of triggerVoiceRefinement
RefineThrows(error) ==
    /\ fbError' = error
    /\ fbRefine' = triggerVoiceRefinementCatch(error)
    /\ fbPc' = "responded"
    /\ response' = Response("voice-feedback", StatusAfter(triggerVoiceRefinementCatch(error)))

\* await database.getContentAnalysisHistory(userId, 20)
RefineReadAnalysis ==
    /\ fbPc = "readAnalysis"
    /\ \E storeUp \in BOOLEAN :
        IF storeUp
        THEN /\ fbAnalysisHistory' = Newest(contentAnalysis, AnalysisLimit)
             /\ fbLog' = Append(fbLog, "getContentAnalysisHistory")
             /\ fbPc' = "readFeedback"
             /\ UNCHANGED <<fbRefine, fbError, response>>
        ELSE /\ RefineThrows("store")
             /\ UNCHANGED <<fbAnalysisHistory, fbLog>>
    /\ UNCHANGED <<langVars, prefVars, storeVars, fbFeedbackHistory, fbCurrentProfile, fbOracleText,
                   fbRefined, fbBefore>>

\* await database.getVoiceFeedbackHistory(userId, 10), then the guard
RefineReadFeedback ==
    /\ fbPc = "readFeedback"
    /\ \E storeUp \in BOOLEAN :
        IF storeUp
        THEN /\ fbFeedbackHistory' = Newest(voiceFeedback, FeedbackLimit)
             /\ fbLog' = Append(fbLog, "getVoiceFeedbackHistory")
             /\ IF NotEnoughData(fbAnalysisHistory)
                THEN RefineReturns
                ELSE /\ fbPc' = "readProfile"
                     /\ UNCHANGED <<fbRefine, fbError, response>>
        ELSE /\ RefineThrows("store")
             /\ UNCHANGED <<fbFeedbackHistory, fbLog>>
    /\ UNCHANGED <<langVars, prefVars, storeVars, fbAnalysisHistory, fbCurrentProfile, fbOracleText,
                   fbRefined, fbBefore>>

\* the profile read without the check for a profile
RefineReadProfile_Unchecked ==
    /\ fbPc = "readProfile"
    /\ fbCurrentProfile' = voiceProfiles
    /\ fbLog' = Append(fbLog, "getVoiceProfile")
    /\ fbPc' = "refine"
    /\ UNCHANGED <<langVars, prefVars, storeVars, response, fbRefine, fbError,
                   fbAnalysisHistory, fbFeedbackHistory, fbOracleText, fbRefined, fbBefore>>

\* await database.getVoiceProfile(userId), then the check for a profile
RefineReadProfile ==
    /\ fbPc = "readProfile"
    /\ \E storeUp \in BOOLEAN :
        IF storeUp
        THEN /\ fbCurrentProfile' = voiceProfiles
             /\ fbLog' = Append(fbLog, "getVoiceProfile")
             /\ IF voiceProfiles = <<>>
                THEN RefineReturns
                ELSE /\ fbPc' = "refine"
                     /\ UNCHANGED <<fbRefine, fbError, response>>
        ELSE /\ RefineThrows("store")
             /\ UNCHANGED <<fbCurrentProfile, fbLog>>
    /\ UNCHANGED <<langVars, prefVars, storeVars, fbAnalysisHistory, fbFeedbackHistory, fbOracleText,
                   fbRefined, fbBefore>>

\* geminiService.refineVoiceProfile, database.upsertVoiceProfile and
\* database.recordTrainingSession, the rest of the try block
RefineApply ==
    LET \* Database.recordTrainingSession: samplesUsed || 0, accuracyScore || 0.0
        SessionRow(samplesUsed, accuracyScore, duration) ==
            [training_type |-> "feedback_based", samples_used |-> samplesUsed,
             accuracy_score |-> accuracyScore, training_duration |-> duration]
    IN
    /\ fbPc = "refine"
    /\ IF ~textModel
       THEN /\ RefineThrows("client")
            /\ UNCHANGED <<fbLog, fbOracleText, fbRefined, voiceProfiles, trainingSessions>>
       ELSE IF ~PromptBuilds(fbAnalysisHistory)
       THEN /\ RefineThrows("prompt")
            /\ UNCHANGED <<fbLog, fbOracleText, fbRefined, voiceProfiles, trainingSessions>>
       ELSE \E oracleUp \in BOOLEAN, text \in RefineResponses,
               upsertUp \in BOOLEAN, recordUp \in BOOLEAN, duration \in {10, 39} :
            LET refined == parseVoiceRefinement(text)
                row == upsertVoiceProfile(voiceProfiles, refined)
                session == SessionRow(Len(fbAnalysisHistory),
                               calculateRefinementAccuracy(fbCurrentProfile[1], refined),
                               duration)
            IN  IF ~oracleUp
                THEN /\ RefineThrows("oracle")
                     /\ fbLog' = Append(fbLog, "generateContent failed")
                     /\ UNCHANGED <<fbOracleText, fbRefined, voiceProfiles, trainingSessions>>
                ELSE IF ~upsertUp \/ UpsertRejected(row)
                THEN /\ RefineThrows("store")
                     /\ fbLog' = Append(fbLog, "generateContent")
                     /\ fbOracleText' = text
                     /\ fbRefined' = refined
                     /\ UNCHANGED <<voiceProfiles, trainingSessions>>
                ELSE IF ~recordUp \/ Len(trainingSessions) >= MaxSessions
                THEN /\ RefineThrows("store")
                     /\ fbLog' = fbLog \o <<"generateContent", "upsertVoiceProfile">>
                     /\ fbOracleText' = text
                     /\ fbRefined' = refined
                     /\ voiceProfiles' = <<row>>
                     /\ UNCHANGED trainingSessions
                ELSE /\ RefineReturns
                     /\ fbLog' = fbLog \o <<"generateContent", "upsertVoiceProfile",
                                            "recordTrainingSession">>
                     /\ fbOracleText' = text
                     /\ fbRefined' = refined
                     /\ voiceProfiles' = <<row>>
                     /\ trainingSessions' = <<session>> \o trainingSessions
    /\ UNCHANGED <<langVars, prefVars, contentAnalysis, voiceFeedback, captionHistory, textModel, fbAnalysisHistory,
                   fbFeedbackHistory, fbCurrentProfile, fbBefore>>

\* the response has been sent; the handler's locals are gone
FeedbackDone ==
    /\ fbPc = "responded"
    /\ fbPc' = "idle"
    /\ fbRefine' = "none"
    /\ fbError' = "none"
    /\ fbLog' = <<>>
    /\ fbAnalysisHistory' = <<>>
    /\ fbFeedbackHistory' = <<>>
    /\ fbCurrentProfile' = <<>>
    /\ fbOracleText' = <<>>
    /\ fbRefined' = VoiceData(EmptyObject, "")
    /\ fbBefore' = NoBefore
    /\ response' = NoResponse
    /\ UNCHANGED <<langVars, prefVars, storeVars>>

(***************************************************************************)
(* Inputs of the language specification                                    *)
(***************************************************************************)
\* rows a user can save: caption text and stored language tag
PostKinds ==
    { Post(Text(<<Word(5), Word(4)>>, "eng"), "hi"),     \* caption detected: en
      Post(EmptyText, "hi"),                             \* no caption, tag hi
      Post(Text(<<Tag(6), Word(2)>>, "tam"), "ta"),      \* cleaned text too short, tag ta
      Post(Text(<<Word(8), Url(14)>>, "und"), "fr"),     \* undetermined, tag fr
      Post(Text(<<Tag(5), Url(9)>>, "und"), Null) }      \* nothing resolves

Requests ==
    LET CaptionInputs ==
            { EmptyText,
              Text(<<Tag(4), Word(2)>>, "eng"),
              Text(<<Word(7), Url(12), Word(3)>>, "fra"),
              Text(<<Word(6)>>, "und") }
    IN
    LET Request(userId, captionText, preferredLanguage, imageLanguageHint, fallbackLanguage) ==
            [userId |-> userId, captionText |-> captionText,
             preferredLanguage |-> preferredLanguage,
             imageLanguageHint |-> imageLanguageHint,
             fallbackLanguage |-> fallbackLanguage]
    IN
    { Request(1, c, p, h, "es") : c \in CaptionInputs, p \in {Null, "te"}, h \in {Null, "kn"} }
    \cup { Request(0, EmptyText, Null, Null, DEFAULT_LANGUAGE),
           Request(1, EmptyText, Null, Null, DEFAULT_LANGUAGE) }

Returned(value) == [status |-> "returned", value |-> value]

NoOutcome == [status |-> "none", value |-> NoResult]

(***************************************************************************)
(* Actions of the language specification                                   *)
(***************************************************************************)
LangIdle ==
    /\ savedPosts = <<>>
    /\ lrPc = "idle"
    /\ lrIn = NoInput
    /\ lrOut = NoOutcome
    /\ lrReads = 0
    /\ lrDist = NoDistribution

InitLang ==
    /\ LangIdle
    /\ PrefsIdle
    /\ VoiceIdle
    /\ textModel = TRUE

\* a post is saved: it becomes the newest row (ORDER BY created_at DESC)
SavePost ==
    /\ lrPc = "idle"
    /\ Len(savedPosts) < MaxPosts
    /\ \E p \in PostKinds : savedPosts' = <<p>> \o savedPosts
    /\ UNCHANGED <<lrPc, lrIn, lrOut, lrReads, lrDist, voiceVars, prefVars>>

\* recommendLanguage, rule 1: a supplied preference returns at once
RecommendPreferred ==
    /\ lrPc = "idle"
    /\ \E in \in Requests :
        /\ in.preferredLanguage # Null
        /\ lrIn' = in
        /\ lrOut' = Returned(Result("single", in.preferredLanguage, Null,
                                    "user-preference", <<"preference">>))
    /\ lrPc' = "done"
    /\ lrReads' = 0
    /\ lrDist' = NoDistribution
    /\ UNCHANGED <<savedPosts, voiceVars, prefVars>>

\* recommendLanguage without a preference, the history read succeeding:
\* detectLanguageDistributionForUser is awaited before rules 2 to 4 are tried
RecommendFromEvidence ==
    /\ lrPc = "idle"
    /\ \E in \in Requests :
        /\ in.preferredLanguage = Null
        /\ lrIn' = in
        /\ LET read == in.userId # 0
               posts == IF read THEN getSavedPosts(savedPosts, HistoryLimit) ELSE <<>>
               distribution == DistributionOf(posts)
           IN  /\ lrReads' = IF read THEN 1 ELSE 0
               /\ lrDist' = distribution
               /\ lrOut' = Returned(Decide(in, distribution))
    /\ lrPc' = "done"
    /\ UNCHANGED <<savedPosts, voiceVars, prefVars>>

\* the same call when database.getSavedPosts rejects: the rejection propagates
RecommendStoreFailure ==
    LET Rejected == [status |-> "rejected", value |-> NoResult]
    IN
    /\ lrPc = "idle"
    /\ \E in \in Requests :
        /\ in.preferredLanguage = Null
        /\ in.userId # 0
        /\ lrIn' = in
    /\ lrReads' = 1
    /\ lrDist' = NoDistribution
    /\ lrOut' = Rejected
    /\ lrPc' = "done"
    /\ UNCHANGED <<savedPosts, voiceVars, prefVars>>

\* the caller has taken the result
RecommendDone ==
    /\ lrPc = "done"
    /\ lrPc' = "idle"
    /\ lrIn' = NoInput
    /\ lrOut' = NoOutcome
    /\ lrReads' = 0
    /\ lrDist' = NoDistribution
    /\ UNCHANGED <<savedPosts, voiceVars, prefVars>>

NextLang ==
    \/ SavePost
    \/ RecommendPreferred
    \/ RecommendFromEvidence
    \/ RecommendStoreFailure
    \/ RecommendDone

SpecLang == InitLang /\ [][NextLang]_vars

(***************************************************************************)
(* The voice specification                                                 *)
(***************************************************************************)
\* the server process is started again: the GeminiService constructor runs
\* with or without GEMINI_API_KEY, the database keeps its rows
Restart ==
    /\ fbPc = "idle"
    /\ textModel' = ~textModel
    /\ response' = NoResponse
    /\ UNCHANGED <<langVars, prefVars, voiceProfiles, contentAnalysis, voiceFeedback, trainingSessions,
                   captionHistory, fbVars>>

Init ==
    /\ LangIdle
    /\ PrefsIdle
    /\ VoiceIdle
    /\ textModel \in BOOLEAN

Next ==
    \/ CreateVoiceProfile
    \/ UpdateVoiceProfile
    \/ AnalyzeVoice
    \/ FeedbackInvalid
    \/ FeedbackStore
    \/ RefineReadAnalysis
    \/ RefineReadFeedback
    \/ RefineReadProfile
    \/ RefineApply
    \/ FeedbackDone
    \/ Restart

Spec == Init /\ [][Next]_vars

(***************************************************************************)
(* The steps of one refinement: triggerVoiceRefinement with                *)
(* geminiService.refineVoiceProfile as a call that returns the parsed text *)
(* of the oracle or throws (part_001 lines 620 to 662)                     *)
(***************************************************************************)
\* the store holds 4 or 5 analysis rows, and no profile or the default one
InitRefineSteps ==
    /\ LangIdle
    /\ PrefsIdle
    /\ voiceFeedback = <<>>
    /\ trainingSessions = <<>>
    /\ captionHistory = <<>>
    /\ response = NoResponse
    /\ FeedbackIdle
    /\ textModel = TRUE
    /\ \E n \in {MinSamples - 1, MinSamples} :
         contentAnalysis =
            [i \in 1..n |-> storeContentAnalysis("caption", "text",
                                parseVoiceAnalysis(FullResponse(30)))]
    /\ voiceProfiles \in
         {<<>>, <<upsertVoiceProfile(<<>>, VoiceData(EmptyObject, ""))>>}

\* await geminiService.refineVoiceProfile(...): it returns what
\* parseVoiceRefinement reads in the text of the oracle, or it throws
RefineOracle ==
    /\ fbPc = "refine"
    /\ \E oracleUp \in BOOLEAN, text \in RefineResponses :
        IF oracleUp
        THEN /\ fbOracleText' = text
             /\ fbRefined' = parseVoiceRefinement(text)
             /\ fbLog' = Append(fbLog, "generateContent")
             /\ fbPc' = "upsert"
             /\ UNCHANGED <<fbRefine, fbError, response>>
        ELSE /\ RefineThrows("oracle")
             /\ fbLog' = Append(fbLog, "generateContent failed")
             /\ UNCHANGED <<fbOracleText, fbRefined>>
    /\ UNCHANGED <<langVars, prefVars, storeVars, fbAnalysisHistory, fbFeedbackHistory,
                   fbCurrentProfile, fbBefore>>

\* the session is recorded where the profile was to be upserted
RefineUpsert_SessionFirst ==
    /\ fbPc = "upsert"
    /\ trainingSessions' =
           <<[training_type |-> "feedback_based", samples_used |-> Len(fbAnalysisHistory),
              accuracy_score |-> 0, training_duration |-> 10]>> \o trainingSessions
    /\ fbLog' = Append(fbLog, "recordTrainingSession")
    /\ fbPc' = "record"
    /\ UNCHANGED <<langVars, prefVars, voiceProfiles, contentAnalysis, voiceFeedback,
                   captionHistory, textModel, response, fbRefine, fbError, fbAnalysisHistory,
                   fbFeedbackHistory, fbCurrentProfile, fbOracleText, fbRefined, fbBefore>>

\* await database.upsertVoiceProfile(userId, refinedProfile)
RefineUpsert ==
    /\ fbPc = "upsert"
    /\ \E storeUp \in BOOLEAN :
        LET row == upsertVoiceProfile(voiceProfiles, fbRefined) IN
        IF storeUp /\ ~UpsertRejected(row)
        THEN /\ voiceProfiles' = <<row>>
             /\ fbLog' = Append(fbLog, "upsertVoiceProfile")
             /\ fbPc' = "record"
             /\ UNCHANGED <<fbRefine, fbError, response>>
        ELSE /\ RefineThrows("store")
             /\ UNCHANGED <<voiceProfiles, fbLog>>
    /\ UNCHANGED <<langVars, prefVars, contentAnalysis, voiceFeedback, trainingSessions,
                   captionHistory, textModel, fbAnalysisHistory, fbFeedbackHistory,
                   fbCurrentProfile, fbOracleText, fbRefined, fbBefore>>

\* await database.recordTrainingSession(userId, {...}), then the call returns
RefineRecord ==
    /\ fbPc = "record"
    /\ \E storeUp \in BOOLEAN, duration \in {10, 39} :
        IF storeUp /\ Len(trainingSessions) < MaxSessions
        THEN /\ trainingSessions' =
                    <<[training_type |-> "feedback_based",
                       samples_used |-> Len(fbAnalysisHistory),
                       accuracy_score |->
                           calculateRefinementAccuracy(fbCurrentProfile[1], fbRefined),
                       training_duration |-> duration]>> \o trainingSessions
             /\ fbLog' = Append(fbLog, "recordTrainingSession")
             /\ RefineReturns
        ELSE /\ RefineThrows("store")
             /\ UNCHANGED <<trainingSessions, fbLog>>
    /\ UNCHANGED <<langVars, prefVars, voiceProfiles, contentAnalysis, voiceFeedback,
                   captionHistory, textModel, fbAnalysisHistory, fbFeedbackHistory,
                   fbCurrentProfile, fbOracleText, fbRefined, fbBefore>>

NextRefineSteps ==
    \/ FeedbackInvalid
    \/ FeedbackStore
    \/ RefineReadAnalysis
    \/ RefineReadFeedback
    \/ RefineReadProfile
    \/ RefineOracle
    \/ RefineUpsert
    \/ RefineRecord
    \/ FeedbackDone

SpecRefineSteps == InitRefineSteps /\ [][NextRefineSteps]_vars

(***************************************************************************)
(* The data path of a refinement: the text the oracle answers with is      *)
(* parsed by parseVoiceRefinement and the result is handed to              *)
(* upsertVoiceProfile (triggerVoiceRefinement, lines 640 to 647)           *)
(***************************************************************************)
InitRefineData ==
    /\ LangIdle
    /\ PrefsIdle
    /\ VoiceIdle
    /\ textModel = TRUE

\* refinedProfile = await geminiService.refineVoiceProfile(...) returns
DataOracleResponds ==
    /\ fbPc = "idle"
    /\ voiceProfiles # <<>>
    /\ \E text \in RefineResponses :
        /\ fbOracleText' = text
        /\ fbRefined' = parseVoiceRefinement(text)
    /\ fbCurrentProfile' = voiceProfiles
    /\ fbPc' = "refined"
    /\ UNCHANGED <<langVars, prefVars, storeVars, response, fbRefine, fbError, fbLog,
                   fbAnalysisHistory, fbFeedbackHistory, fbBefore>>

\* await database.upsertVoiceProfile(userId, refinedProfile)
DataUpsert ==
    /\ fbPc = "refined"
    /\ voiceProfiles' = <<upsertVoiceProfile(voiceProfiles, fbRefined)>>
    /\ fbPc' = "upserted"
    /\ UNCHANGED <<langVars, prefVars, contentAnalysis, voiceFeedback, trainingSessions, captionHistory, textModel,
                   response, fbRefine, fbError, fbLog, fbAnalysisHistory,
                   fbFeedbackHistory, fbCurrentProfile, fbOracleText, fbRefined, fbBefore>>

\* triggerVoiceRefinement is called again in immediate succession: the
\* history is as before, so the oracle stub gives the text it gave before;
\* getVoiceProfile reads the row the first call left, the text is parsed and
\* the result is upserted
DataRefineAgain ==
    /\ fbPc = "upserted"
    /\ fbCurrentProfile' = voiceProfiles
    /\ fbRefined' = parseVoiceRefinement(fbOracleText)
    /\ voiceProfiles' = <<upsertVoiceProfile(voiceProfiles, parseVoiceRefinement(fbOracleText))>>
    /\ fbPc' = "again"
    /\ UNCHANGED <<langVars, prefVars, contentAnalysis, voiceFeedback, trainingSessions, captionHistory, textModel,
                   response, fbRefine, fbError, fbLog, fbAnalysisHistory,
                   fbFeedbackHistory, fbOracleText, fbBefore>>

\* the locals are dropped
DataDone ==
    /\ fbPc \in {"upserted", "again"}
    /\ fbPc' = "idle"
    /\ fbOracleText' = <<>>
    /\ fbRefined' = VoiceData(EmptyObject, "")
    /\ fbCurrentProfile' = <<>>
    /\ UNCHANGED <<langVars, prefVars, storeVars, response, fbRefine, fbError, fbLog,
                   fbAnalysisHistory, fbFeedbackHistory, fbBefore>>

NextRefineData ==
    \/ CreateVoiceProfile
    \/ DataOracleResponds
    \/ DataUpsert
    \/ DataRefineAgain
    \/ DataDone

SpecRefineData == InitRefineData /\ [][NextRefineData]_vars

(***************************************************************************)
(* VoiceModel: consistency of a text with the stored profile               *)
(* (POST /validate-consistency)                                            *)
(***************************************************************************)
\* the dimensions array of generateConsistencyRecommendations
RecommendationDimensions ==
    << [key |-> "formality", profileLabel |-> "Formality", contentLabel |-> "Formal"],
       [key |-> "humor", profileLabel |-> "Humor", contentLabel |-> "Humorous"],
       [key |-> "enthusiasm", profileLabel |-> "Enthusiasm", contentLabel |-> "Enthusiastic"],
       [key |-> "professionalism", profileLabel |-> "Professionalism",
        contentLabel |-> "Professional"],
       [key |-> "creativity", profileLabel |-> "Creativity", contentLabel |-> "Creative"],
       [key |-> "emotional_tone", profileLabel |-> "Emotional Tone",
        contentLabel |-> "Emotional"],
       [key |-> "confidence", profileLabel |-> "Confidence", contentLabel |-> "Confident"],
       [key |-> "warmth", profileLabel |-> "Warmth", contentLabel |-> "Warm"] >>

\* const threshold = 0.3
ConsistencyThreshold == 30

\* Math.abs(profileValue - contentValue) > threshold
ExceedsThreshold(profileValue, contentValue) ==
    LET \* The operands are IEEE-754 doubles: the nearest double of lo/100 taken from
        \* the nearest double of (lo+30)/100 is a double either equal to the double
        \* 0.3 or one step above or below it.  These are the lo in 0..120 for which
        \* it is above (0.8 - 0.5 is 0.30000000000000004), by double arithmetic
        DoubleDifferenceAboveThreshold ==
            {3, 4, 9, 10, 15, 16, 21, 22, 23, 24, 25, 26, 35, 36, 37, 38, 47, 48,
             49, 50, 51, 57, 58, 59, 60, 61, 62, 63, 69, 70, 71, 72, 73, 74, 75,
             76, 77, 78, 79, 80, 81, 82, 94, 95, 96, 97, 98, 99, 100, 101, 102,
             103, 104, 105, 106, 107, 113, 114, 115, 116, 117, 118, 119, 120}
    IN
    \/ Abs(profileValue - contentValue) > ConsistencyThreshold
    \/ /\ Abs(profileValue - contentValue) = ConsistencyThreshold
       /\ Min(profileValue, contentValue) \in DoubleDifferenceAboveThreshold

\* totalScore after the first n dimensions of the forEach
RECURSIVE TotalScore(_, _, _)
TotalScore(voiceProfile, analysis, n) ==
    IF n = 0 THEN 0
    ELSE TotalScore(voiceProfile, analysis, n - 1)
         + Max(0, 100 - Abs(voiceProfile[Columns[n]] - analysis[Columns[n]]))

\* the mean of the distances instead of the mean of the scores
calculateConsistencyScore_Distance(voiceProfile, analysis) ==
    LET totalScore == 100 * Len(Columns) - TotalScore(voiceProfile, analysis, Len(Columns))
        n == Len(Columns)
    IN  IF (2 * totalScore) % (2 * n) = n
        THEN {totalScore \div n, totalScore \div n + 1}
        ELSE {(2 * totalScore + n) \div (2 * n)}

\* Math.floor in place of Math.round
calculateConsistencyScore_Truncated(voiceProfile, analysis) ==
    {TotalScore(voiceProfile, analysis, Len(Columns)) \div Len(Columns)}

\* calculateConsistencyScore: Math.round((totalScore / 8) * 100) / 100, in
\* hundredths.  Math.round takes the nearer integer; when the exact mean is
\* half way between two hundredths the rounding error of the double sum puts
\* it on either side, so the function yields the set of values it can return
calculateConsistencyScore(voiceProfile, analysis) ==
    LET totalScore == TotalScore(voiceProfile, analysis, Len(Columns))
        n == Len(Columns)
    IN  IF (2 * totalScore) % (2 * n) = n
        THEN {totalScore \div n, totalScore \div n + 1}
        ELSE {(2 * totalScore + n) \div (2 * n)}

\* the recommendations pushed by the first n dimensions of the forEach; the
\* suggestion is the sentence built from direction and contentLabel
RECURSIVE RecommendationsUpTo(_, _, _)
RecommendationsUpTo(voiceProfile, analysis, n) ==
    IF n = 0 THEN <<>>
    ELSE LET recommendations == RecommendationsUpTo(voiceProfile, analysis, n - 1)
             dim == RecommendationDimensions[n]
             profileValue == voiceProfile[dim.key]
             contentValue == analysis[dim.key]
         IN  IF ExceedsThreshold(profileValue, contentValue)
             THEN Append(recommendations,
                    [dimension |-> dim.profileLabel,
                     difference |-> Abs(profileValue - contentValue),
                     suggestion |-> [direction |-> IF contentValue > profileValue
                                                   THEN "more" ELSE "less",
                                     label |-> ToLowerCase(dim.contentLabel)]])
             ELSE recommendations

generateConsistencyRecommendations(voiceProfile, analysis) ==
    RecommendationsUpTo(voiceProfile, analysis, Len(RecommendationDimensions))

\* the voice_profiles rows the consistency check is run against
ConsistencyProfiles ==
    LET \* values of a stored profile and of an analysis, in hundredths
        ProfileValues == {20, 50, 80, 150}
    IN
    { [profile_name |-> "Default Profile",
       dims |-> [c \in ColumnSet |-> IF c = "formality" THEN f
                                     ELSE IF c = "humor" THEN h ELSE 50]] :
        f \in ProfileValues, h \in ProfileValues }

\* what the oracle can answer to the analysis prompt of the consistency check
ConsistencyResponses ==
    LET AnalysisValues == {0, 10, 50, 110}
    IN
    { <<Line("FORMALITY", {f}), Line("HUMOR", {h}), Line("WARMTH", {w})>> :
        f \in AnalysisValues, h \in AnalysisValues, w \in AnalysisValues }
    \cup { <<Line("FORMALITY", {}), Line("Note", {})>> }

\* the store holds no profile or one of the profiles, nothing else has run
InitConsistency ==
    /\ LangIdle
    /\ PrefsIdle
    /\ contentAnalysis = <<>>
    /\ voiceFeedback = <<>>
    /\ trainingSessions = <<>>
    /\ captionHistory = <<>>
    /\ response = NoResponse
    /\ FeedbackIdle
    /\ voiceProfiles \in {<<>>} \cup {<<row>> : row \in ConsistencyProfiles}
    /\ textModel \in BOOLEAN

\* POST /validate-consistency
ValidateConsistency ==
    LET \* the consistency object of the response
        Consistency(score, profile, analysis, recommendations) ==
            [score |-> score, profile |-> profile, contentAnalysis |-> analysis,
             recommendations |-> recommendations]
    IN
    /\ fbPc = "idle"
    /\ \E contentText \in {"", "text"}, storeUp \in BOOLEAN, oracleUp \in BOOLEAN,
          text \in ConsistencyResponses :
        IF contentText = ""
        THEN response' = Response("validate-consistency", 400)
        ELSE IF ~storeUp
        THEN response' = Response("validate-consistency", 500)
        ELSE IF voiceProfiles = <<>>
        THEN response' = Response("validate-consistency", 404)
        ELSE IF ~(textModel /\ oracleUp)
        THEN response' = Response("validate-consistency", 500)
        ELSE LET voiceProfile == voiceProfiles[1]
                 analysis == parseVoiceAnalysis(text)
             IN  \E consistencyScore \in calculateConsistencyScore(voiceProfile.dims, analysis) :
                   response' = Answer("validate-consistency", 200,
                       Consistency(consistencyScore, voiceProfile, analysis,
                           generateConsistencyRecommendations(voiceProfile.dims, analysis)))
    /\ UNCHANGED <<langVars, prefVars, storeVars, fbVars>>

NextConsistency ==
    \/ ValidateConsistency
    \/ Restart

SpecConsistency == InitConsistency /\ [][NextConsistency]_vars

(***************************************************************************)
(* PreferenceMemory: pure functions                                        *)
(* (services/userPreferenceService.js, services/geminiMemoryEngine.js)     *)
(***************************************************************************)
\* array.slice(0, limit)
Slice(seq, limit) == SubSeq(seq, 1, Min(Len(seq), limit))

\* item.trim()
Trim(item) ==
    CASE item = " a" -> "a"
      [] item = " boring" -> "boring"
      [] item = "  " -> ""
      [] OTHER -> item

\* set.add(item.trim()) for the truthy items with a non-empty trim among
\* items[1..n]; a Set keeps its members in insertion order
RECURSIVE TrimmedSet(_, _)
TrimmedSet(items, n) ==
    LET \* x.includes(item) of an array
        Includes(seq, item) == \E i \in 1..Len(seq) : seq[i] = item
    IN
    IF n = 0 THEN <<>>
    ELSE LET set == TrimmedSet(items, n - 1)
             item == items[n]
         IN  IF item # "" /\ Len(Trim(item)) > 0 /\ ~Includes(set, Trim(item))
             THEN Append(set, Trim(item))
             ELSE set

\* the members are taken from the end of the set instead of its start
mergeUniqueLists_Tail(existing, incoming, limit) ==
    LET set == TrimmedSet(existing \o incoming, Len(existing) + Len(incoming))
    IN  SubSeq(set, Len(set) - Min(Len(set), limit) + 1, Len(set))

\* every member of the set is returned, the limit is not applied
mergeUniqueLists_Unbounded(existing, incoming, limit) ==
    TrimmedSet(existing \o incoming, Len(existing) + Len(incoming))

\* mergeUniqueLists: Array.from(set).slice(0, limit)
mergeUniqueLists(existing, incoming, limit) ==
    Slice(TrimmedSet(existing \o incoming, Len(existing) + Len(incoming)), limit)

\* mergeLists of the memory engine, the same function under another name
mergeLists(listA, listB, limit) ==
    Slice(TrimmedSet(listA \o listB, Len(listA) + Len(listB)), limit)

\* A text is a sequence of tokens with single spaces between them; a token
\* is a run of letters, an emoji, a digit, a punctuation mark or a stretch
\* of short words.  `length` is its length in UTF-16 code units
Token(kind, text, length) == [kind |-> kind, text |-> text, length |-> length]

\* "<C9>" and "<e9>" stand for the letters U+00C9 and U+00E9
Letters(run) ==
    Token("letters", run, IF run \in {"<C9>clairs", "<e9>clairs"} THEN 7 ELSE Len(run))

\* the match of /\b[a-zA-Z\u00C0-\u017F]{6,}\b/g in a lower-cased run of
\* letters, "" if there is none: \b is a boundary of [A-Za-z0-9_], so there
\* is none before a leading accented letter and the match starts after it
MatchIn(run) ==
    IF run = "<e9>clairs" THEN "clairs"
    ELSE IF Len(run) >= 6 THEN run
    ELSE ""

\* text.toLowerCase().match(...) over the first n tokens
RECURSIVE Words(_, _)
Words(text, n) ==
    IF n = 0 THEN <<>>
    ELSE LET words == Words(text, n - 1)
             token == text[n]
         IN  IF token.kind = "letters" /\ MatchIn(ToLowerCase(token.text)) # ""
             THEN Append(words, MatchIn(ToLowerCase(token.text)))
             ELSE words

\* the reduce over words[1..n]: acc[word] = (acc[word] || 0) + 1 on the
\* object literal {}.  For a word that names an inherited property acc[word]
\* is a function, and function + 1 is a string
RECURSIVE WordCounts(_, _)
WordCounts(words, n) ==
    LET \* an entry of Object.entries(counts); the count is {n} for the number n and
        \* {} for a value that is not a number
        Entry(word, count) == [word |-> word, count |-> count]
    IN
    LET \* the properties of Object.prototype a lower-cased run of letters can name
        InheritedProperties == {"constructor"}
    IN
    IF n = 0 THEN <<>>
    ELSE LET acc == WordCounts(words, n - 1)
             word == words[n]
         IN  IF \E i \in 1..Len(acc) : acc[i].word = word
             THEN LET i == CHOOSE j \in 1..Len(acc) : acc[j].word = word IN
                  [acc EXCEPT ![i].count =
                      IF @ = {} THEN {} ELSE {(CHOOSE c \in @ : TRUE) + 1}]
             ELSE IF word \in InheritedProperties
             THEN Append(acc, Entry(word, {}))
             ELSE Append(acc, Entry(word, {1}))

\* Array.prototype.sort is stable: e goes behind the entries it does not precede
RECURSIVE InsertEntry(_, _)
InsertEntry(sorted, e) ==
    LET \* the comparator (a, b) => b[1] - a[1]; a NaN is taken as +0 by sort
        CompareEntries(a, b) ==
            IF a.count = {} \/ b.count = {} THEN 0
            ELSE (CHOOSE c \in b.count : TRUE) - (CHOOSE c \in a.count : TRUE)
    IN
    IF sorted = <<>> THEN <<e>>
    ELSE IF CompareEntries(Head(sorted), e) <= 0
         THEN <<Head(sorted)>> \o InsertEntry(Tail(sorted), e)
         ELSE <<e>> \o sorted

RECURSIVE SortedUpTo(_, _)
SortedUpTo(entries, n) ==
    IF n = 0 THEN <<>>
    ELSE InsertEntry(SortedUpTo(entries, n - 1), entries[n])

\* the orders sort can leave: the stable order, and an order left to the
\* implementation when the comparator is not consistent
SortOrders(entries) ==
    LET \* the comparator is a consistent comparator unless an entry that equals
        \* every entry stands beside two entries that differ
        ConsistentComparator(list) ==
            \/ \A i \in 1..Len(list) : list[i].count # {}
            \/ \A i, j \in 1..Len(list) :
                  (list[i].count # {} /\ list[j].count # {})
                     => list[i].count = list[j].count
    IN
    IF ConsistentComparator(entries) THEN {SortedUpTo(entries, Len(entries))}
    ELSE { [i \in 1..Len(entries) |-> entries[f[i]]] :
             f \in { g \in [1..Len(entries) -> 1..Len(entries)] :
                        \A i, j \in 1..Len(entries) : g[i] = g[j] => i = j } }

\* extractPhrases: the lists it can return
extractPhrases(text) ==
    { Slice([i \in 1..Len(sorted) |-> sorted[i].word], 10) :
        sorted \in SortOrders(WordCounts(Words(text, Len(text)),
                                         Len(Words(text, Len(text))))) }

(***************************************************************************)
(* PreferenceMemory: the stored preferences and what is learned from a     *)
(* caption.  The emoji level is kept in hundredths (2 is 200); a nullable  *)
(* number or list is {} for NULL and {v} for the value v                   *)
(***************************************************************************)
Structure(hasEmojisAtEnd, startsWithQuote, containsLineBreaks, firstSentenceLength) ==
    [hasEmojisAtEnd |-> hasEmojisAtEnd, startsWithQuote |-> startsWithQuote,
     containsLineBreaks |-> containsLineBreaks, firstSentenceLength |-> firstSentenceLength]

DEFAULT_PREFERENCES ==
    [preferred_tone |-> "casual", emoji_level |-> 200, common_phrases |-> <<>>,
     disliked_phrases |-> <<>>, caption_length_preference |-> "medium",
     language_preference |-> "en", caption_structure |-> Structure(FALSE, FALSE, FALSE, 0)]

\* x || d on a string: null, undefined and '' are falsy
OrDefault(x, d) == IF x = Null \/ x = "" THEN d ELSE x

\* getPreferences: the defaults without a row, else the row with a default
\* in place of each NULL (?? for the emoji level, || for the others)
getPreferences(rows) ==
    IF rows = <<>> THEN DEFAULT_PREFERENCES
    ELSE LET row == rows[1] IN
         [preferred_tone |-> OrDefault(row.preferred_tone, DEFAULT_PREFERENCES.preferred_tone),
          emoji_level |-> DefaultTo(row.emoji_level, DEFAULT_PREFERENCES.emoji_level),
          common_phrases |-> DefaultTo(row.common_phrases, <<>>),
          disliked_phrases |-> DefaultTo(row.disliked_phrases, <<>>),
          caption_length_preference |->
              OrDefault(row.caption_length_preference,
                        DEFAULT_PREFERENCES.caption_length_preference),
          language_preference |->
              OrDefault(row.language_preference, DEFAULT_PREFERENCES.language_preference),
          caption_structure |-> row.caption_structure]

\* the default of the parameter limit
DefaultLimit == 10

\* updatePreferences: the values bound to the INSERT ... ON CONFLICT DO UPDATE
NextPrefs(rows, updates) ==
    LET \* the property k of {...currentPrefs, ...preferenceUpdates}
        Spread(current, object, k) == IF k \in DOMAIN object THEN object[k] ELSE current
    IN
    LET currentPrefs == getPreferences(rows) IN
    [preferred_tone |-> Spread(currentPrefs.preferred_tone, updates, "preferred_tone"),
     emoji_level |-> Spread({currentPrefs.emoji_level}, updates, "emoji_level"),
     common_phrases |->
         {mergeUniqueLists(currentPrefs.common_phrases,
                           Spread(<<>>, updates, "common_phrases"), DefaultLimit)},
     disliked_phrases |->
         IF "disliked_phrases" \in DOMAIN updates
         THEN IF updates["disliked_phrases"] = {} THEN {}
              ELSE {mergeUniqueLists(currentPrefs.disliked_phrases,
                                     CHOOSE list \in updates["disliked_phrases"] : TRUE,
                                     DefaultLimit)}
         ELSE {currentPrefs.disliked_phrases},
     caption_length_preference |->
         Spread(currentPrefs.caption_length_preference, updates, "caption_length_preference"),
     language_preference |->
         Spread(currentPrefs.language_preference, updates, "language_preference"),
     caption_structure |-> Spread(currentPrefs.caption_structure, updates, "caption_structure")]

\* emoji_level INT CHECK (emoji_level BETWEEN 0 AND 5): the statement is
\* rejected for a value that is not an integer or not in the range
QueryRejected(row) ==
    \E level \in row.emoji_level : level % 100 # 0 \/ level < 0 \/ level > 500

\* the length of a text in UTF-16 code units
RECURSIVE LengthUpTo(_, _)
LengthUpTo(text, n) ==
    IF n = 0 THEN 0
    ELSE LengthUpTo(text, n - 1) + text[n].length + (IF n > 1 THEN 1 ELSE 0)

TextLength(text) == LengthUpTo(text, Len(text))

\* the code points of a token that EMOJI_REGEX matches: \p{Emoji} holds of
\* the digits, of '#' and of '*' as well, and the class names U+FE0F, so an
\* emoji followed by the variation selector is matched twice
EmojiMatches(token) ==
    CASE token.kind = "emoji" -> IF token.text = "heart+FE0F" THEN 2 ELSE 1
      [] token.kind = "digit" -> 1
      [] OTHER -> 0

RECURSIVE MatchCount(_, _)
MatchCount(text, n) ==
    IF n = 0 THEN 0 ELSE MatchCount(text, n - 1) + EmojiMatches(text[n])

clamp(value, min, max) == Max(min, Min(max, value))

\* detectEmojiLevel
detectEmojiLevel(text) == clamp(MatchCount(text, Len(text)), 0, 5)

IsMark(token, marks) == token.kind = "mark" /\ token.text \in marks

\* detectTone
detectTone(text) ==
    IF text = <<>> THEN "casual"
    ELSE IF \E i \in 1..Len(text) : IsMark(text[i], {"!"}) THEN "energetic"
    ELSE IF TextLength(text) > 200 THEN "detailed"
    ELSE "casual"

\* detectLengthPreference
detectLengthPreference(text) ==
    IF TextLength(text) < 150 THEN "short"
    ELSE IF TextLength(text) < 250 THEN "medium"
    ELSE "long"

\* text.trim(): the line breaks at either end go
RECURSIVE TrimText(_)
TrimText(text) ==
    IF text = <<>> THEN text
    ELSE IF IsMark(text[1], {"LF"}) THEN TrimText(Tail(text))
    ELSE IF IsMark(text[Len(text)], {"LF"}) THEN TrimText(SubSeq(text, 1, Len(text) - 1))
    ELSE text

\* detectStructure
detectStructure(text) ==
    LET \* the length of the match of /[^.!?]+[.!?]?/ in a trimmed text, the length
        \* of the text if there is none: the match starts at the first character
        \* that is not one of . ! ? and ends with the next one that is
        FirstSentenceLength(sentence) ==
            LET from == IF IsMark(sentence[1], {".", "!", "?"}) THEN 2 ELSE 1
                ends == {i \in from..Len(sentence) : IsMark(sentence[i], {".", "!", "?"})}
                to == IF ends = {} THEN Len(sentence) ELSE CHOOSE i \in ends : \A j \in ends : i <= j
            IN  IF from > Len(sentence) THEN TextLength(sentence)
                ELSE LengthUpTo(sentence, to) - LengthUpTo(sentence, from - 1)
    IN
    LET trimmed == TrimText(text) IN
    Structure(trimmed # <<>> /\ EmojiMatches(trimmed[Len(trimmed)]) > 0,
              trimmed # <<>> /\ IsMark(trimmed[1], {"'"}),
              \E i \in 1..Len(text) : IsMark(text[i], {"LF"}),
              IF trimmed = <<>> THEN 0 ELSE FirstSentenceLength(trimmed))

\* the detected level is taken as it is, the stored level is not averaged in
learnFromCaption_Detected(rows, finalCaption, language) ==
    LET existingPrefs == getPreferences(rows)
        languagePreference == OrDefault(language, existingPrefs.language_preference)
    IN  { [preferred_tone |->
               OrDefault(detectTone(finalCaption), existingPrefs.preferred_tone),
           emoji_level |-> {100 * detectEmojiLevel(finalCaption)},
           common_phrases |->
               mergeLists(existingPrefs.common_phrases, extractedPhrases, DefaultLimit),
           caption_structure |-> detectStructure(finalCaption),
           caption_length_preference |-> detectLengthPreference(finalCaption),
           language_preference |->
               OrDefault(languagePreference, existingPrefs.language_preference)] :
          extractedPhrases \in extractPhrases(finalCaption) }

\* learnFromCaption for a user and a caption that are given: the snapshots it
\* can return, one for each list extractPhrases can return.  `language` is
\* context.language.  existingPrefs.emoji_level is never undefined, as
\* getPreferences puts 2 in place of a NULL
learnFromCaption(rows, finalCaption, language) ==
    LET \* Number(x.toFixed(2)) of half of `twice` hundredths
        ToFixed2(twice) == (twice + 1) \div 2
    IN
    LET existingPrefs == getPreferences(rows)
        languagePreference == OrDefault(language, existingPrefs.language_preference)
        detectedEmoji == detectEmojiLevel(finalCaption)
    IN  { [preferred_tone |->
               OrDefault(detectTone(finalCaption), existingPrefs.preferred_tone),
           emoji_level |-> {ToFixed2(existingPrefs.emoji_level + 100 * detectedEmoji)},
           common_phrases |->
               mergeLists(existingPrefs.common_phrases, extractedPhrases, DefaultLimit),
           caption_structure |-> detectStructure(finalCaption),
           caption_length_preference |-> detectLengthPreference(finalCaption),
           language_preference |->
               OrDefault(languagePreference, existingPrefs.language_preference)] :
          extractedPhrases \in extractPhrases(finalCaption) }

(***************************************************************************)
(* PreferenceMemory: inputs, state and actions                             *)
(***************************************************************************)
\* the final captions the memory engine is given
Captions ==
    LET Sun == Token("emoji", "sun", 2)
    IN
    { <<>>,
      << Letters("golden"), Letters("sunset"), Letters("coffee"), Letters("banana"),
         Letters("travel"), Letters("summer"), Sun, Sun >>,
      << Letters("friends"), Letters("morning"), Letters("weekend"), Letters("holiday"),
         Letters("seaside"), Letters("harbour"), Token("mark", "!", 1) >>,
      << Letters("top"), Token("digit", "7", 1), Letters("beach"), Sun >>,
      << Token("filler", "words of fewer than 6 letters", 260),
         Sun, Sun, Sun, Sun, Sun, Sun >> }

TwelveWords ==
    << "golden", "sunset", "coffee", "banana", "travel", "summer", "friends",
       "morning", "weekend", "holiday", "seaside", "harbour" >>

\* the objects updatePreferences is called with by other callers; the
\* first is {...DEFAULT_PREFERENCES} of initPreferences
PreferenceUpdates ==
    { [preferred_tone |-> "casual", emoji_level |-> {200}, common_phrases |-> <<>>,
       disliked_phrases |-> {<<>>}, caption_length_preference |-> "medium",
       language_preference |-> "en",
       caption_structure |-> Structure(FALSE, FALSE, FALSE, 0)],
      EmptyObject,
      [disliked_phrases |-> {<<"boring", " boring", "  ", "", "a">>}],
      [disliked_phrases |-> {TwelveWords}],
      [disliked_phrases |-> {}],
      [common_phrases |-> TwelveWords],
      [emoji_level |-> {700}],
      [language_preference |-> Null],
      [language_preference |-> "hi"] }

\* what learnFromCaption returned ({} for null), with the row it read
Learned(learned, stored) == [op |-> "returned", learned |-> learned, stored |-> stored]

\* a store query of the call rejected before anything was learned or stored
PrefsRejected == [op |-> "rejected", learned |-> {}, stored |-> <<>>]

InitPreferenceMemory ==
    /\ LangIdle
    /\ VoiceIdle
    /\ textModel = TRUE
    /\ PrefsIdle

\* learnedPrefs = learnFromCaption(userId, caption, { language });
\* if (learnedPrefs) updatePreferences(userId, learnedPrefs); a rejection of
\* either call is caught by the route and the row is left as it was
LearnFromCaption ==
    LET \* context.language: undefined or a language
        ContextLanguages == {Null, "en", "hi"}
    IN
    /\ \E finalCaption \in Captions, language \in ContextLanguages,
          readUp \in BOOLEAN, writeUp \in BOOLEAN :
        /\ pfIn' = [op |-> "learnFromCaption", finalCaption |-> finalCaption,
                    language |-> language]
        /\ IF finalCaption = <<>>
           THEN /\ pfOut' = Learned({}, <<>>)
                /\ UNCHANGED userPreferences
           ELSE IF ~readUp
           THEN /\ pfOut' = PrefsRejected
                /\ UNCHANGED userPreferences
           ELSE \E learnedPrefs \in learnFromCaption(userPreferences, finalCaption, language) :
                  LET nextPrefs == NextPrefs(userPreferences, learnedPrefs) IN
                  /\ pfOut' = Learned({learnedPrefs}, userPreferences)
                  /\ IF writeUp /\ ~QueryRejected(nextPrefs)
                     THEN userPreferences' = <<nextPrefs>>
                     ELSE UNCHANGED userPreferences
    /\ UNCHANGED <<langVars, voiceVars>>

\* updatePreferences(userId, preferenceUpdates) from another caller
UpdatePreferences ==
    /\ \E preferenceUpdates \in PreferenceUpdates, storeUp \in BOOLEAN :
        LET nextPrefs == NextPrefs(userPreferences, preferenceUpdates) IN
        /\ pfIn' = [op |-> "updatePreferences", preferenceUpdates |-> preferenceUpdates]
        /\ IF storeUp /\ ~QueryRejected(nextPrefs)
           THEN /\ userPreferences' = <<nextPrefs>>
                /\ pfOut' = Learned({}, <<>>)
           ELSE /\ UNCHANGED userPreferences
                /\ pfOut' = PrefsRejected
    /\ UNCHANGED <<langVars, voiceVars>>

NextPreferenceMemory ==
    \/ LearnFromCaption
    \/ UpdatePreferences

SpecPreferenceMemory == InitPreferenceMemory /\ [][NextPreferenceMemory]_vars

(***************************************************************************)
(* Two callers of updatePreferences for one user.  A call awaits the       *)
(* SELECT of getPreferences and then the INSERT ... ON CONFLICT DO UPDATE; *)
(* each is a pool query of its own, no transaction and no row lock spans   *)
(* the two, so the queries of another call can run in between              *)
(***************************************************************************)
Writers == {1, 2}

\* the objects the callers pass
RaceUpdates ==
    { [common_phrases |-> <<"golden", "sunset">>],
      [common_phrases |-> <<"coffee">>, language_preference |-> "hi"],
      [disliked_phrases |-> {<<"boring">>}],
      [emoji_level |-> {700}] }

\* a caller that has made no call yet
RaceIdle == [pc |-> "idle", calls |-> 0, currentPrefs |-> <<>>, order |-> 0]

\* the number of upserts executed so far
Upserts(out) == Max(out[1].order, out[2].order)

InitRace ==
    /\ LangIdle
    /\ VoiceIdle
    /\ textModel = TRUE
    /\ userPreferences = <<>>
    /\ pfIn = [w \in Writers |-> NoCall]
    /\ pfOut = [w \in Writers |-> RaceIdle]

\* updatePreferences(userId, preferenceUpdates) is called: by another
\* caller with an object of its own, or by the route with what
\* learnFromCaption has just learned from the row
RaceCall(w) ==
    /\ pfOut[w].pc \in {"idle", "done", "failed"}
    /\ pfOut[w].calls < MaxUpdates
    /\ \E preferenceUpdates \in
            RaceUpdates \cup
            learnFromCaption(userPreferences,
                             <<Letters("friends"), Letters("morning")>>, Null) :
         pfIn' = [pfIn EXCEPT ![w] = [op |-> "updatePreferences",
                                       preferenceUpdates |-> preferenceUpdates]]
    /\ pfOut' = [pfOut EXCEPT ![w].pc = "called", ![w].calls = @ + 1]
    /\ UNCHANGED <<langVars, voiceVars, userPreferences>>

\* const currentPrefs = await getPreferences(userId)
RaceRead(w) ==
    /\ pfOut[w].pc = "called"
    /\ pfOut' = [pfOut EXCEPT ![w].pc = "read", ![w].currentPrefs = userPreferences]
    /\ UNCHANGED <<langVars, voiceVars, userPreferences, pfIn>>

\* the row is written from the row that is in the store now, as if the read
\* and the upsert of a call were one step
RaceUpsert_Serialized(w) ==
    LET nextPrefs == NextPrefs(userPreferences, pfIn[w].preferenceUpdates) IN
    /\ pfOut[w].pc = "read"
    /\ IF QueryRejected(nextPrefs)
       THEN /\ pfOut' = [pfOut EXCEPT ![w].pc = "failed"]
            /\ UNCHANGED userPreferences
       ELSE /\ pfOut' = [pfOut EXCEPT ![w].pc = "done", ![w].order = Upserts(pfOut) + 1]
            /\ userPreferences' = <<nextPrefs>>
    /\ UNCHANGED <<langVars, voiceVars, pfIn>>

\* await query(INSERT ... ON CONFLICT (user_id) DO UPDATE SET ...): every
\* column is set from nextPrefs, which was built from currentPrefs
RaceUpsert(w) ==
    LET nextPrefs == NextPrefs(pfOut[w].currentPrefs, pfIn[w].preferenceUpdates) IN
    /\ pfOut[w].pc = "read"
    /\ IF QueryRejected(nextPrefs)
       THEN /\ pfOut' = [pfOut EXCEPT ![w].pc = "failed"]
            /\ UNCHANGED userPreferences
       ELSE /\ pfOut' = [pfOut EXCEPT ![w].pc = "done", ![w].order = Upserts(pfOut) + 1]
            /\ userPreferences' = <<nextPrefs>>
    /\ UNCHANGED <<langVars, voiceVars, pfIn>>

NextRace ==
    \E w \in Writers :
        \/ RaceCall(w)
        \/ RaceRead(w)
        \/ RaceUpsert(w)

SpecRace == InitRace /\ [][NextRace]_vars

(***************************************************************************)
(* The text caption generation request (POST /, part_001 lines 362 to 471) *)
(***************************************************************************)
\* POST /: the steps outside an inner try block end the request with 500
\* and error.message when they reject; the three inner try blocks log and
\* go on.  `failed` is the first of the outer steps to reject
GenerateCaption ==
    /\ fbPc = "idle"
    /\ Len(contentAnalysis) < MaxCaptions
    /\ Len(captionHistory) < MaxCaptions
    /\ \E valid \in BOOLEAN, language \in {"en", "hi"},
          failed \in {"none", "getUserById", "getVoiceProfile", "getPreferences",
                      "generateContent"},
          caption \in { <<Letters("golden"), Letters("sunset"), Token("emoji", "sun", 2)>>,
                        <<Letters("friends"), Token("mark", "!", 1)>> },
          text \in AnalysisResponses, analysisUp \in BOOLEAN,
          memory \in {"read rejected", "write rejected", "stored"}, historyUp \in BOOLEAN :
        IF ~valid
        THEN /\ response' = Answer("generate", 400, [message |-> "required"])
             /\ UNCHANGED <<contentAnalysis, userPreferences, captionHistory>>
        ELSE IF failed # "none" \/ ~textModel
        THEN /\ response' = Answer("generate", 500,
                     [message |-> IF failed \in {"none", "generateContent"}
                                  THEN "generateContent" ELSE failed])
             /\ UNCHANGED <<contentAnalysis, userPreferences, captionHistory>>
        ELSE /\ contentAnalysis' =
                    IF analysisUp
                    THEN <<storeContentAnalysis("caption", "text", parseVoiceAnalysis(text))>>
                         \o contentAnalysis
                    ELSE contentAnalysis
             /\ IF memory = "read rejected" THEN UNCHANGED userPreferences
                ELSE \E learnedPrefs \in learnFromCaption(userPreferences, caption, language) :
                       LET nextPrefs == NextPrefs(userPreferences, learnedPrefs) IN
                       IF memory = "stored" /\ ~QueryRejected(nextPrefs)
                       THEN userPreferences' = <<nextPrefs>>
                       ELSE UNCHANGED userPreferences
             /\ captionHistory' =
                    IF historyUp
                    THEN <<[generated_caption |-> caption, final_caption |-> caption,
                            feedback_score |-> 5]>> \o captionHistory
                    ELSE captionHistory
             /\ response' = Answer("generate", 200,
                                   [caption |-> caption,
                                    voiceProfileUsed |-> voiceProfiles # <<>>])
    /\ UNCHANGED <<langVars, voiceProfiles, voiceFeedback, trainingSessions, textModel,
                   fbVars, pfIn, pfOut>>

NextGenerate ==
    \/ GenerateCaption
    \/ Restart

SpecGenerate == Init /\ [][NextGenerate]_vars

(***************************************************************************)
(* The functions of the PreferenceMemory applied to arguments              *)
(***************************************************************************)
\* the sequences over S of length at most n
SeqsUpTo(S, n) == UNION {[1..k -> S] : k \in 0..n}

MergeCalls ==
    LET MergeItems == {"a", "b", "c", " a", "  ", ""}
    IN
    LET Limits == {2, 10}
    IN
    { [op |-> op, existing |-> existing, incoming |-> incoming, limit |-> limit] :
        op \in {"mergeUniqueLists", "mergeLists"},
        existing \in SeqsUpTo(MergeItems, MaxExisting),
        incoming \in SeqsUpTo(MergeItems, MaxIncoming),
        limit \in Limits }

PhraseTexts ==
    LET PhraseTokens ==
            { Letters("Banana"), Letters("banana"), Letters("SUNSET"), Letters("beach"),
              Letters("constructor"), Letters("<C9>clairs"), Token("digit", "7", 1) }
    IN
    LET \* a text of 13 words, 12 of them distinct, the last one used twice
        LongText ==
            << Letters("golden"), Letters("sunset"), Letters("coffee"), Letters("banana"),
               Letters("travel"), Letters("summer"), Letters("friends"), Letters("morning"),
               Letters("weekend"), Letters("holiday"), Letters("seaside"), Letters("harbour"),
               Letters("harbour") >>
    IN
               SeqsUpTo(PhraseTokens, MaxWords) \cup {LongText}

PhraseCalls == { [op |-> "extractPhrases", text |-> text] : text \in PhraseTexts }

\* the value a call returned
ReturnedValue(value) == [op |-> "returned", value |-> value]

InitMemoryFunctions ==
    /\ LangIdle
    /\ VoiceIdle
    /\ textModel = TRUE
    /\ userPreferences = <<>>
    /\ pfIn \in MergeCalls \cup PhraseCalls
    /\ pfOut = NoCall

CallMergeUniqueLists ==
    /\ pfIn.op = "mergeUniqueLists"
    /\ pfOut = NoCall
    /\ pfOut' = ReturnedValue(mergeUniqueLists(pfIn.existing, pfIn.incoming, pfIn.limit))
    /\ UNCHANGED <<langVars, voiceVars, userPreferences, pfIn>>

CallMergeLists ==
    /\ pfIn.op = "mergeLists"
    /\ pfOut = NoCall
    /\ pfOut' = ReturnedValue(mergeLists(pfIn.existing, pfIn.incoming, pfIn.limit))
    /\ UNCHANGED <<langVars, voiceVars, userPreferences, pfIn>>

CallExtractPhrases ==
    /\ pfIn.op = "extractPhrases"
    /\ pfOut = NoCall
    /\ \E phrases \in extractPhrases(pfIn.text) : pfOut' = ReturnedValue(phrases)
    /\ UNCHANGED <<langVars, voiceVars, userPreferences, pfIn>>

NextMemoryFunctions ==
    \/ CallMergeUniqueLists
    \/ CallMergeLists
    \/ CallExtractPhrases

SpecMemoryFunctions == InitMemoryFunctions /\ [][NextMemoryFunctions]_vars

(***************************************************************************)
(* Properties of the VoiceModel                                            *)
(***************************************************************************)
Range(seq) == {seq[i] : i \in 1..Len(seq)}

\* the POST /voice-feedback request has been answered after its refinement ran
RefinementOver == fbPc = "responded" /\ fbRefine # "none"

\* the refinement left the profile and the training sessions as they were
NothingWritten ==
    /\ voiceProfiles = fbBefore.profiles
    /\ trainingSessions = fbBefore.sessions
    /\ Range(fbLog) \cap {"upsertVoiceProfile", "recordTrainingSession"} = {}

\* C4: with fewer than 5 analysis records refine is a strict no-op: no oracle
\* call, no profile upsert, no training session, the profile unchanged
C4_NoOpBelowFive ==
    (RefinementOver /\ Len(contentAnalysis) < 5) =>
        /\ Range(fbLog) \cap {"generateContent", "generateContent failed"} = {}
        /\ fbOracleText = <<>>
        /\ NothingWritten

\* a refinement that returned with 4 analysis records, a profile and an
\* initialised oracle client
C4_Witness ==
    /\ RefinementOver
    /\ fbError = "none"
    /\ Len(contentAnalysis) = 4
    /\ voiceProfiles # <<>>
    /\ textModel

\* C5: with at least 5 analysis records, a profile and a responding oracle,
\* refine calls the oracle with the history read (up to 20 analysis and 10
\* feedback records), upserts the returned vector and appends exactly one
\* training session whose samplesUsed is the number of analysis records read
C5_RefineReachesOracle ==
    (/\ RefinementOver
     /\ Len(contentAnalysis) >= 5
     /\ fbBefore.profiles # <<>>
     /\ textModel
     /\ fbError \notin {"store", "oracle"}) =>
        /\ fbAnalysisHistory = Newest(contentAnalysis, 20)
        /\ fbFeedbackHistory = Newest(voiceFeedback, 10)
        /\ "generateContent" \in Range(fbLog)
        /\ "upsertVoiceProfile" \in Range(fbLog)
        /\ Len(trainingSessions) = Len(fbBefore.sessions) + 1
        /\ trainingSessions[1].samples_used = Len(fbAnalysisHistory)

\* C6: a failure of the oracle call during refine is caught and not passed
\* on to the caller, the stored profile is as before the call and no
\* training session is written
C6_OracleFailureSwallowed ==
    (RefinementOver /\ fbError \in {"client", "prompt", "oracle"}) =>
        /\ fbRefine = "returned"
        /\ response = Response("voice-feedback", 200)
        /\ NothingWritten

\* refineVoiceProfile rejected (the oracle client is not initialised) for a
\* user with a profile and at least 5 analysis records
C6_Witness ==
    /\ RefinementOver
    /\ fbError = "client"
    /\ fbBefore.profiles # <<>>
    /\ Len(fbAnalysisHistory) >= 5
    /\ fbRefine = "returned"

\* C7: a store read or write that fails inside refine makes refine fail with
\* that error, which the caller sees, instead of being swallowed
C7_StoreFailureSurfaces ==
    (RefinementOver /\ fbError = "store") =>
        /\ fbRefine = "rejected"
        /\ response.status = 500

\* C8: every dimension of every stored voice profile lies in [0,1]
C8_DimensionsInUnitInterval ==
    \A i \in 1..Len(voiceProfiles) : \A c \in ColumnSet :
        0 <= voiceProfiles[i].dims[c] /\ voiceProfiles[i].dims[c] <= 100

\* C9: an upsert with a partial vector leaves each dimension it does not
\* supply at its stored value when the profile exists, and sets it to 0.5
\* only when the profile is first created
C9_PartialUpdateRetains ==
    [][(response'.route = "voice-profiles" /\ response'.status = 200) =>
         \A c \in ColumnSet :
            KeyOfColumn(c) \notin DOMAIN response'.body.num =>
              voiceProfiles'[1].dims[c] =
                 IF voiceProfiles # <<>> THEN voiceProfiles[1].dims[c] ELSE 50]_vars

\* the number the oracle gave for a dimension: the last numeric line with
\* that key, {} when there is none
OracleValue(text, key) ==
    LET at == {i \in 1..Len(text) : text[i].key = key /\ text[i].value # {}} IN
    IF at = {} THEN {}
    ELSE text[CHOOSE i \in at : \A j \in at : j <= i].value

\* C10: after a refinement each of the 8 dimensions of the stored profile is
\* the value the oracle returned for it, clamped to [0,1], 0 included
C10_StoredIsClampedOracleValue ==
    fbPc = "upserted" =>
        \A i \in 1..Len(UpperKeys) :
            LET x == OracleValue(fbOracleText, UpperKeys[i]) IN
            x # {} =>
                voiceProfiles[1].dims[Columns[i]] = Max(0, Min(100, CHOOSE v \in x : TRUE))

Validated == response.route = "validate-consistency" /\ response.status = 200

InUnitInterval(vector) == \A c \in ColumnSet : 0 <= vector[c] /\ vector[c] <= 100

\* the sum over the 8 dimensions of max(0, 1 - |profile[d] - analyzed[d]|)
SumOfScores(profile, analyzed) ==
    LET score(c) == IF Abs(profile[c] - analyzed[c]) >= 100 THEN 0
                    ELSE 100 - Abs(profile[c] - analyzed[c])
        sum[S \in SUBSET ColumnSet] ==
            IF S = {} THEN 0
            ELSE LET c == CHOOSE x \in S : TRUE IN score(c) + sum[S \ {c}]
    IN  sum[ColumnSet]

\* C12: for a profile and an analyzed vector with all 8 dimensions in [0,1]
\* the consistency score lies in [0,1], and it is 1.0 when the two are equal
C12_ScoreInUnitInterval ==
    (/\ Validated
     /\ InUnitInterval(response.body.profile.dims)
     /\ InUnitInterval(response.body.contentAnalysis)) =>
        /\ 0 <= response.body.score /\ response.body.score <= 100
        /\ (\A c \in ColumnSet :
               response.body.profile.dims[c] = response.body.contentAnalysis[c])
             => response.body.score = 100

\* a score for an analysis that equals the profile in every dimension
C12_Witness ==
    /\ Validated
    /\ InUnitInterval(response.body.profile.dims)
    /\ \A c \in ColumnSet :
          response.body.profile.dims[c] = response.body.contentAnalysis[c]
    /\ response.body.score = 100

\* C13: the consistency score is the mean over the 8 dimensions of
\* max(0, 1 - |profile[d] - analyzed[d]|) rounded to 2 decimal places (it is
\* a hundredth at most 0.005 from the mean); formality 0.8 against 0.5 with
\* the other dimensions equal gives 0.96
C13_ScoreIsRoundedMean ==
    Validated =>
        LET profile == response.body.profile.dims
            analyzed == response.body.contentAnalysis
        IN  /\ Abs(8 * response.body.score - SumOfScores(profile, analyzed)) <= 4
            /\ (/\ profile["formality"] = 80 /\ analyzed["formality"] = 50
                 /\ \A c \in ColumnSet \ {"formality"} : profile[c] = analyzed[c])
                => response.body.score = 96

\* the example: formality 0.8 against 0.5, the other dimensions equal
C13_Witness ==
    /\ Validated
    /\ response.body.profile.dims["formality"] = 80
    /\ response.body.contentAnalysis["formality"] = 50
    /\ \A c \in ColumnSet \ {"formality"} :
          response.body.profile.dims[c] = response.body.contentAnalysis[c]
    /\ response.body.score = 96

\* a mean half way between two hundredths (0.875), returned as 0.88
C13_HalfWay ==
    /\ Validated
    /\ SumOfScores(response.body.profile.dims, response.body.contentAnalysis) = 700
    /\ response.body.score = 88

\* the entries recommend is to return for the first n dimensions: one for
\* each dimension whose absolute delta is strictly greater than 0.3
RECURSIVE EntriesUpTo(_, _, _)
EntriesUpTo(profile, analyzed, n) ==
    IF n = 0 THEN <<>>
    ELSE LET dim == RecommendationDimensions[n]
             delta == analyzed[dim.key] - profile[dim.key]
         IN  IF Abs(delta) > 30
             THEN Append(EntriesUpTo(profile, analyzed, n - 1),
                         [dimension |-> dim.profileLabel,
                          direction |-> IF delta > 0 THEN "more" ELSE "less"])
             ELSE EntriesUpTo(profile, analyzed, n - 1)

\* C14: recommend with threshold 0.3 returns, in the fixed dimension order,
\* one entry for exactly the dimensions whose absolute delta is strictly
\* greater than 0.3 (a delta of exactly 0.3 yields no entry), with direction
\* 'more' when analyzed > profile and 'less' otherwise
C14_EntriesStrictlyAboveThreshold ==
    Validated =>
        LET recommendations == response.body.recommendations IN
        [i \in 1..Len(recommendations) |->
            [dimension |-> recommendations[i].dimension,
             direction |-> recommendations[i].suggestion.direction]]
        = EntriesUpTo(response.body.profile.dims, response.body.contentAnalysis, 8)

\* C20: whatever text the oracle answers with, the vector parsed for
\* refineVoice and the vector parsed for analyzeVoice hold all 8
\* dimensions, with 0.5 for each dimension the text gives no number for
C20_AllDimensionsPresent ==
    /\ fbPc = "refined" =>
         \A i \in 1..Len(Columns) :
            /\ Columns[i] \in DOMAIN fbRefined.num
            /\ OracleValue(fbOracleText, UpperKeys[i]) = {} =>
                 fbRefined.num[Columns[i]] = 50
    /\ Validated =>
         \A i \in 1..Len(Columns) : Columns[i] \in DOMAIN response.body.contentAnalysis

\* the positions of the log where a call is recorded
LoggedAt(calls) == {i \in 1..Len(fbLog) : fbLog[i] \in calls}

\* every call of `later` in the log has each call of `earlier` before it
LoggedBefore(earlier, later) ==
    \A i \in LoggedAt(later) : \A call \in earlier : \E j \in LoggedAt({call}) : j < i

\* C23: within one refinement both history reads complete before the oracle
\* call is issued, the profile upsert completes before the training session
\* is appended, and no run appends a session without a completed upsert
C23_RefineStepOrder ==
    /\ LoggedBefore({"getContentAnalysisHistory", "getVoiceFeedbackHistory"},
                    {"generateContent", "generateContent failed"})
    /\ fbPc \in {"refine", "upsert", "record"} =>
          LoggedAt({"getContentAnalysisHistory"}) # {} /\ LoggedAt({"getVoiceFeedbackHistory"}) # {}
    /\ LoggedBefore({"upsertVoiceProfile"}, {"recordTrainingSession"})
    /\ (fbRefine # "none" /\ trainingSessions # fbBefore.sessions) =>
          /\ LoggedAt({"upsertVoiceProfile"}) # {}
          /\ voiceProfiles = <<upsertVoiceProfile(fbBefore.profiles, fbRefined)>>

\* a refinement that ran to its end: reads, oracle, upsert, session
C23_Witness ==
    /\ RefinementOver
    /\ fbLog = <<"getContentAnalysisHistory", "getVoiceFeedbackHistory", "getVoiceProfile",
                 "generateContent", "upsertVoiceProfile", "recordTrainingSession">>
    /\ Len(trainingSessions) = Len(fbBefore.sessions) + 1

\* the steps of POST / that personalise the caption or record it
PersonalizationSteps ==
    {"getVoiceProfile", "getPreferences", "analyzeContentVoice", "storeContentAnalysis",
     "learnFromCaption", "updatePreferences", "saveEntry"}

\* C21: in the text caption generation request a failure of a
\* personalization step (reading the voice profile or the preferences, the
\* voice analysis of the result, the preference learning and its upsert, the
\* caption history save) never makes the response an error
C21_PersonalizationNeverFails ==
    (response.route = "generate" /\ response.status = 500) =>
        response.body.message \notin PersonalizationSteps

\* C30: refine never creates a profile: when the user has no active profile
\* the refinement stops at the profile read, with no oracle call and no
\* store write, even with 5 or more analysis records
C30_RefineNeverCreatesProfile ==
    (fbRefine # "none" /\ "getVoiceProfile" \in Range(fbLog) /\ fbCurrentProfile = <<>>) =>
        /\ fbPc = "responded"
        /\ fbError = "none"
        /\ fbOracleText = <<>>
        /\ Range(fbLog) \cap {"generateContent", "generateContent failed"} = {}
        /\ NothingWritten
        /\ voiceProfiles = <<>>

\* a refinement over 5 analysis records of a user without a profile has
\* returned, the oracle client being initialised
C30_Witness ==
    /\ RefinementOver
    /\ Len(fbAnalysisHistory) >= 5
    /\ "getVoiceProfile" \in Range(fbLog)
    /\ fbCurrentProfile = <<>>
    /\ textModel
    /\ voiceProfiles = <<>>

\* the row a correct round trip of the oracle text would leave: each
\* dimension as the text gives it (0.5 where it gives none), and the
\* confidence score of the text as analysis_confidence
RoundTripRow(text) ==
    LET value(key) == IF OracleValue(text, key) = {} THEN {50} ELSE OracleValue(text, key)
    IN  [content_type |-> "caption", content_text |-> "text",
         analyzed |-> [c \in ColumnSet |->
                         value(UpperKeys[CHOOSE i \in 1..Len(Columns) : Columns[i] = c])],
         analysis_confidence |-> CHOOSE v \in value("CONFIDENCE_SCORE") : TRUE]

\* C26: a content analysis record appended from an oracle analysis holds the
\* 8 dimensions with the values the oracle produced, and the oracle's
\* confidence score, not the confidence dimension, as analysis_confidence
C26_AnalysisRoundTrip ==
    [][(/\ response'.route = "analyze-voice"
        /\ response'.status = 200
        /\ Len(contentAnalysis') = Len(contentAnalysis) + 1) =>
          \E text \in AnalysisResponses : contentAnalysis'[1] = RoundTripRow(text)]_vars

(***************************************************************************)
(* Properties of the PreferenceMemory                                      *)
(***************************************************************************)
\* the phrase lists of the stored preferences row
StoredLists ==
    IF userPreferences = <<>> THEN {}
    ELSE userPreferences[1].common_phrases \cup userPreferences[1].disliked_phrases

\* C15: after any sequence of updatePreferences calls, those made with what
\* learnFromCaption learned included, the stored common_phrases and
\* disliked_phrases hold at most 10 entries each, no blank entry and no
\* entry twice
C15_StoredListsBounded ==
    \A list \in StoredLists :
        /\ Len(list) <= 10
        /\ \A i \in 1..Len(list) : list[i] # "" /\ Trim(list[i]) # ""
        /\ \A i, j \in 1..Len(list) : i # j => list[i] # list[j]

\* twelve disliked phrases were given to a row that holds ten common phrases
\* after two captions of six words each: ten of each are kept
C15_Witness ==
    /\ pfIn.op = "updatePreferences"
    /\ pfIn.preferenceUpdates = [disliked_phrases |-> {TwelveWords}]
    /\ userPreferences # <<>>
    /\ \E common \in userPreferences[1].common_phrases :
         Len(common) = 10 /\ common[1] = "friends"
    /\ \E disliked \in userPreferences[1].disliked_phrases :
         Len(disliked) = 10 /\ disliked[1] = "boring" /\ disliked[2] = "a"

\* learnFromCaption has returned what it learned
LearnedFromCaption ==
    pfIn.op = "learnFromCaption" /\ pfOut.op = "returned" /\ pfOut.learned # {}

\* the number of emoji in text[1..n]
RECURSIVE EmojiUpTo(_, _)
EmojiUpTo(text, n) ==
    IF n = 0 THEN 0
    ELSE EmojiUpTo(text, n - 1) + (IF text[n].kind = "emoji" THEN 1 ELSE 0)

\* C18: the emoji level learnFromCaption yields is (existing level +
\* detected level) / 2 to 2 decimals, the detected level being the number
\* of emoji of the caption clamped to [0,5]; the level stays within [0,5]
C18_EmojiLevelIsAverage ==
    LearnedFromCaption =>
        LET existing == getPreferences(pfOut.stored).emoji_level
            count == EmojiUpTo(pfIn.finalCaption, Len(pfIn.finalCaption))
            detected == 100 * Max(0, Min(5, count))
        IN  \A learnedPrefs \in pfOut.learned :
              \A level \in learnedPrefs.emoji_level :
                /\ 2 * level = existing + detected
                /\ level >= 0
                /\ level <= 500

\* C19: learnFromCaption keeps the language preference of the stored
\* profile whenever it has one, and takes the language of the context only
\* when the profile has none
C19_ProfileLanguageKept ==
    LearnedFromCaption =>
        LET stored == IF pfOut.stored = <<>> THEN Null
                      ELSE pfOut.stored[1].language_preference
        IN  \A learnedPrefs \in pfOut.learned :
              IF stored # Null
              THEN learnedPrefs.language_preference = stored
              ELSE pfIn.language # Null =>
                     learnedPrefs.language_preference = pfIn.language

\* the emoji level of the stored preferences row, as getPreferences reads it
StoredEmojiLevel(rows) ==
    IF rows = <<>> THEN {DEFAULT_PREFERENCES.emoji_level}
    ELSE IF rows[1].emoji_level = {} THEN {DEFAULT_PREFERENCES.emoji_level}
    ELSE rows[1].emoji_level

\* C25: when the emoji level learnFromCaption reads is strictly between 0
\* and 5, neither the level it yields nor the level stored after the merge
\* is exactly 0 or exactly 5, whatever the caption (five or more emoji or
\* none included), so no sequence of merges reaches an extreme
C25_EmojiLevelNeverExtreme ==
    LearnedFromCaption =>
        \A existing \in StoredEmojiLevel(pfOut.stored) :
            (existing > 0 /\ existing < 500) =>
                /\ \A learnedPrefs \in pfOut.learned :
                      \A level \in learnedPrefs.emoji_level : level \notin {0, 500}
                /\ \A level \in StoredEmojiLevel(userPreferences) : level \notin {0, 500}

\* a caption of six emoji was merged into a row of level 3: level 4 was
\* learned and stored, the nearest the stored level comes to 5
C25_Witness ==
    /\ LearnedFromCaption
    /\ detectEmojiLevel(pfIn.finalCaption) = 5
    /\ StoredEmojiLevel(pfOut.stored) = {300}
    /\ \A learnedPrefs \in pfOut.learned : learnedPrefs.emoji_level = {400}
    /\ StoredEmojiLevel(userPreferences) = {400}

\* the common_phrases of the stored preferences row
StoredCommonPhrases ==
    IF userPreferences = <<>> THEN {} ELSE userPreferences[1].common_phrases

\* C29: once the stored common_phrases holds 10 entries, every later
\* learnFromCaption merge and every later updatePreferences call leaves the
\* list as it is
C29_FullListFrozen ==
    [][\A common \in StoredCommonPhrases :
          Len(common) = 10 => StoredCommonPhrases' = {common}]_vars

\* a caption with the new words 'seaside' and 'harbour' was learned and
\* stored (the emoji level went from 2 to 1) over a row that held the first
\* ten of the twelve words: the list is the same ten words
C29_Witness ==
    /\ LearnedFromCaption
    /\ \E i \in 1..Len(pfIn.finalCaption) : pfIn.finalCaption[i].text = "seaside"
    /\ pfOut.stored # <<>>
    /\ pfOut.stored[1].common_phrases = {SubSeq(TwelveWords, 1, 10)}
    /\ pfOut.stored[1].emoji_level = {200}
    /\ userPreferences[1].emoji_level = {100}
    /\ userPreferences[1].common_phrases = {SubSeq(TwelveWords, 1, 10)}

\* every caller's updatePreferences call has returned or thrown
UpdatesComplete == \A w \in Writers : pfOut[w].pc \in {"done", "failed"}

\* C24: when the updatePreferences calls of two callers for one user have
\* completed, in whatever order their reads and upserts ran, the stored row
\* is the snapshot bound by the upsert that executed last, built from the
\* row that caller had read itself and from its own updates
C24_LastWriteWins ==
    UpdatesComplete =>
        \A w \in Writers :
            (pfOut[w].pc = "done" /\ pfOut[w].order = Upserts(pfOut)) =>
                userPreferences =
                    <<NextPrefs(pfOut[w].currentPrefs, pfIn[w].preferenceUpdates)>>

\* both callers read the empty table before either wrote; the first
\* upsert stored 'golden' and 'sunset', the second stored 'coffee' alone:
\* the phrases of the first are lost
C24_Witness ==
    /\ UpdatesComplete
    /\ pfIn[1].preferenceUpdates = [common_phrases |-> <<"golden", "sunset">>]
    /\ "common_phrases" \in DOMAIN pfIn[2].preferenceUpdates
    /\ pfIn[2].preferenceUpdates.common_phrases = <<"coffee">>
    /\ pfOut[1].order = 1
    /\ pfOut[2].order = 2
    /\ pfOut[1].currentPrefs = <<>>
    /\ pfOut[2].currentPrefs = <<>>
    /\ userPreferences # <<>>
    /\ userPreferences[1].common_phrases = {<<"coffee">>}

\* a merge of two lists has returned
Merged == pfIn.op \in {"mergeUniqueLists", "mergeLists"} /\ pfOut # NoCall

\* the positions in `all` where a trimmed non-empty string occurs first
FirstOccurrences(all) ==
    { i \in 1..Len(all) :
        /\ Trim(all[i]) # ""
        /\ \A j \in 1..(i - 1) : Trim(all[j]) # Trim(all[i]) }

\* C16: mergeUniqueLists(a, b, limit) is the duplicate-free sequence of the
\* trimmed non-empty strings of a followed by those of b, in the order of
\* their first occurrence, cut to its first `limit` entries;
\* (["a","b","a"], ["b","c"], 2) gives ["a","b"]
C16_MergeUniqueLists ==
    Merged =>
        LET all == pfIn.existing \o pfIn.incoming
            first == FirstOccurrences(all)
            merged == pfOut.value
        IN  /\ Len(merged) = Min(pfIn.limit, Cardinality(first))
            /\ \A k \in 1..Len(merged) :
                 \E i \in first : /\ merged[k] = Trim(all[i])
                                  /\ Cardinality({j \in first : j < i}) = k - 1
            /\ (/\ pfIn.existing = <<"a", "b", "a">>
                /\ pfIn.incoming = <<"b", "c">>
                /\ pfIn.limit = 2) => merged = <<"a", "b">>

\* the example of the claim has returned
C16_Witness ==
    /\ Merged
    /\ pfIn.op = "mergeUniqueLists"
    /\ pfIn.existing = <<"a", "b", "a">>
    /\ pfIn.incoming = <<"b", "c">>
    /\ pfIn.limit = 2
    /\ pfOut.value = <<"a", "b">>

\* extractPhrases has returned
Extracted == pfIn.op = "extractPhrases" /\ pfOut # NoCall

\* the positions of the text where the token `word` is matched
Occurrences(text, word) ==
    { i \in 1..Len(text) :
        text[i].kind = "letters" /\ MatchIn(ToLowerCase(text[i].text)) = word }

First(S) == CHOOSE i \in S : \A j \in S : i <= j

\* C17: extractPhrases returns at most 10 distinct lower-cased tokens of
\* length 6 or more, by descending frequency in the text and, at equal
\* frequency, in the order of their first occurrence; a call on the same
\* text can return no other list
C17_PhrasesByFrequency ==
    Extracted =>
        LET phrases == pfOut.value
            frequency(w) == Cardinality(Occurrences(pfIn.text, w))
            first(w) == First(Occurrences(pfIn.text, w))
        IN  /\ Len(phrases) <= 10
            /\ \A i \in 1..Len(phrases) :
                 /\ frequency(phrases[i]) > 0
                 /\ Len(phrases[i]) >= 6
                 /\ ToLowerCase(phrases[i]) = phrases[i]
            /\ \A i, j \in 1..Len(phrases) : i < j =>
                 /\ phrases[i] # phrases[j]
                 /\ \/ frequency(phrases[i]) > frequency(phrases[j])
                    \/ /\ frequency(phrases[i]) = frequency(phrases[j])
                       /\ first(phrases[i]) < first(phrases[j])
            /\ extractPhrases(pfIn.text) = {phrases}

(***************************************************************************)
(* Properties of the LanguageAdvisor, checked under SpecLang               *)
(***************************************************************************)
\* the call has returned a recommendation
LangReturned == lrPc = "done" /\ lrOut.status = "returned"

IsSingle(r, primary, reason) ==
    r.mode = "single" /\ r.primary = primary /\ r.secondary = Null /\ r.reason = reason

\* the call got as far as the history rule with a distribution to rank
AtHistoryRule ==
    /\ LangReturned
    /\ lrIn.preferredLanguage = Null
    /\ detectLanguageFromCaption(lrIn.captionText) = Null
    /\ lrIn.imageLanguageHint = Null
    /\ lrDist # NoDistribution

Counts(dist) == {dist.count[i] : i \in 1..Len(dist.order)}

\* the largest tally of the distribution
TopCount(dist) == CHOOSE c \in Counts(dist) : \A d \in Counts(dist) : d <= c

\* the tally of the second-ranked language: the largest once one language
\* holding the top tally is set aside, 0 when there is no second language
SecondCount(dist) ==
    LET top == CHOOSE i \in 1..Len(dist.order) : dist.count[i] = TopCount(dist)
        rest == {dist.count[i] : i \in (1..Len(dist.order)) \ {top}}
    IN  IF rest = {} THEN 0 ELSE CHOOSE c \in rest : \A d \in rest : d <= c

CountOf(dist, lang) ==
    LET pos == {i \in 1..Len(dist.order) : dist.order[i] = lang} IN
    IF pos = {} THEN 0 ELSE dist.count[CHOOSE i \in pos : TRUE]

C2_AudienceMajority ==
    (AtHistoryRule /\ 10 * TopCount(lrDist) >= 7 * lrDist.total) =>
        /\ lrOut.value.mode = "single"
        /\ CountOf(lrDist, lrOut.value.primary) = TopCount(lrDist)
        /\ lrOut.value.secondary = Null
        /\ lrOut.value.reason = "audience-majority"

\* a majority below 0.8 with a second language present, such as 3 of 4
C2_Witness ==
    /\ AtHistoryRule
    /\ 10 * TopCount(lrDist) >= 7 * lrDist.total
    /\ 10 * TopCount(lrDist) < 8 * lrDist.total
    /\ Len(lrDist.order) >= 2
    /\ lrOut.value.reason = "audience-majority"

\* C3: at the history rule with a top share below 0.7, the result is
\* bilingual {top, second-ranked, audience-mixed} exactly when the top share
\* is >= 0.5 and the second-ranked share is >= 0.2, and otherwise single
\* with primary the top language and reason audience-default
C3_MixedOrDefault ==
    (AtHistoryRule /\ 10 * TopCount(lrDist) < 7 * lrDist.total) =>
        LET r == lrOut.value
            mixed == /\ 10 * TopCount(lrDist) >= 5 * lrDist.total
                     /\ 10 * SecondCount(lrDist) >= 2 * lrDist.total
        IN  /\ CountOf(lrDist, r.primary) = TopCount(lrDist)
            /\ mixed => /\ r.mode = "bilingual"
                        /\ r.reason = "audience-mixed"
                        /\ r.secondary # r.primary
                        /\ CountOf(lrDist, r.secondary) = SecondCount(lrDist)
            /\ ~mixed => IsSingle(r, r.primary, "audience-default")

\* a bilingual result whose second share is exactly 0.2
C3_Witness ==
    /\ AtHistoryRule
    /\ 10 * TopCount(lrDist) < 7 * lrDist.total
    /\ 10 * SecondCount(lrDist) = 2 * lrDist.total
    /\ lrOut.value.mode = "bilingual"

\* both ways of missing the bilingual rule are reached: a top share of at
\* least 0.5 whose runner-up is below 0.2, and a top share below 0.5
C3_DefaultReached ==
    /\ AtHistoryRule
    /\ 10 * TopCount(lrDist) >= 5 * lrDist.total
    /\ 10 * TopCount(lrDist) < 7 * lrDist.total
    /\ 10 * SecondCount(lrDist) < 2 * lrDist.total
    /\ lrOut.value.reason = "audience-default"

\* the call has settled without a preference, and the caption detection or
\* the image hint decides it
DecidedBeforeHistory ==
    /\ lrPc = "done"
    /\ lrIn.preferredLanguage = Null
    /\ \/ detectLanguageFromCaption(lrIn.captionText) # Null
       \/ lrIn.imageLanguageHint # Null

\* C22: recommendLanguage reads the post history only when none of rules 1
\* to 3 matched: when the caption detection or the image hint decides the
\* result no store read has been issued, and the call returns its result
\* whether or not the store can be read
C22_HistoryReadOnlyAtRule4 ==
    DecidedBeforeHistory => (lrReads = 0 /\ lrOut.status = "returned")

\* C27: every result of recommendLanguage for a non-empty fallbackLanguage
\* has mode single or bilingual and a primary that is not null; its
\* secondary is not null exactly when the mode is bilingual, and then it
\* differs from the primary
C27_ResultWellFormed ==
    (LangReturned /\ lrIn.fallbackLanguage \notin {Null, ""}) =>
        LET r == lrOut.value IN
        /\ r.mode \in {"single", "bilingual"}
        /\ r.primary # Null
        /\ (r.secondary # Null) <=> (r.mode = "bilingual")
        /\ r.mode = "bilingual" => r.secondary # r.primary

\* a bilingual result with two different languages
C27_Witness ==
    /\ LangReturned
    /\ lrOut.value.mode = "bilingual"
    /\ lrOut.value.secondary \notin {Null, lrOut.value.primary}

\* a single result from a history in one language only
C27_OneLanguage ==
    /\ AtHistoryRule
    /\ Len(lrDist.order) = 1
    /\ lrOut.value.mode = "single"

\* the language a saved post counts for: the one detected in its caption,
\* else its stored tag
LanguageOfPost(post) ==
    IF detectLanguageFromCaption(post.caption) # Null
    THEN detectLanguageFromCaption(post.caption) ELSE post.language

\* the positions of the posts that count for a language, newest first
PostsIn(lang) == {i \in 1..Len(savedPosts) : LanguageOfPost(savedPosts[i]) = lang}

\* the languages the posts of the history count for
TopLanguages ==
    {LanguageOfPost(savedPosts[i]) : i \in 1..Len(savedPosts)} \ {Null}

\* lang is ranked before other: more posts, or as many and a more recent
\* first post
RankedBefore(lang, other) ==
    \/ Cardinality(PostsIn(lang)) > Cardinality(PostsIn(other))
    \/ /\ Cardinality(PostsIn(lang)) = Cardinality(PostsIn(other))
       /\ \E i \in PostsIn(lang) : \A j \in PostsIn(other) : i < j

\* C28: the ranking of the history breaks ties by recency: of two languages
\* of equal share the one met first in the most-recent-first list of posts
\* ranks higher, so the primary (and the secondary of a bilingual result)
\* is determined by the post history alone
C28_TieBreakByRecency ==
    AtHistoryRule =>
        LET r == lrOut.value IN
        /\ \A other \in TopLanguages \ {r.primary} : RankedBefore(r.primary, other)
        /\ r.mode = "bilingual" =>
              \A other \in TopLanguages \ {r.primary, r.secondary} :
                 RankedBefore(r.secondary, other)

\* two languages with half of the history each: the primary is the language
\* of the newest post, the other one is the secondary
C28_Witness ==
    /\ AtHistoryRule
    /\ Len(lrDist.order) = 2
    /\ lrDist.count[1] = lrDist.count[2]
    /\ Len(savedPosts) >= 4
    /\ lrOut.value.mode = "bilingual"
    /\ lrOut.value.primary = LanguageOfPost(savedPosts[1])
    /\ lrOut.value.secondary # lrOut.value.primary

====
